---- MODULE Spec2Model ----
(***************************************************************************)
(* Request/response capture middleware of                                  *)
(* autobots_devtools_shared_lib.common.observability.otel_fastapi.         *)
(*                                                                         *)
(* Bytes are integers 0..255, a bytes object is a sequence of bytes, a     *)
(* Python str is a sequence of Unicode code points, a dict is a function   *)
(* whose domain is its set of keys.                                        *)
(***************************************************************************)
EXTENDS Integers, Sequences, FiniteSets, TLC

VARIABLES
    config,              \* the OtelCaptureConfig the middleware was built with
    scope,               \* the ASGI scope of the exchange
    span,                \* what trace.get_current_span() yields for the exchange
    mode,                \* "new", then the branch middleware() took: "passthrough" | "capture"
    sendPc,              \* position inside send_wrapper
    pending,             \* the message send_wrapper is handling
    request_body_parts,  \* closure list of middleware()
    response_status,     \* closure int of middleware()
    response_body_parts, \* closure list of middleware()
    attrs,               \* attributes set on the span (name -> value)
    commit,              \* outcome of _set_span_attributes for the exchange
    produced,            \* messages the outer receive returned, in order
    received,            \* messages the handler obtained from its receive, in order
    emitted,             \* messages the handler passed to its send, in order
    sent,                \* messages handed to the outer send, in order
    log,                 \* events in order: commit calls, attribute writes, forwards
                         \* (n = position of the forwarded message in sent)
    tbody,               \* _truncate_body: argument body
    tcap,                \* _truncate_body: argument max_size_kb
    tres,                \* _truncate_body: returned dict, or the marker NoResult
    ebody,               \* _capture_error_details: argument body
    eres,                \* _capture_error_details: how the call ended and what it
                         \* set on its span, or the marker NoResult
    environ,             \* os.environ: the three OTEL_CAPTURE_* variables
    built,               \* OtelCaptureConfig(): the object built or the exception
                         \* raised, or the marker NoResult
    heap,                \* concurrent exchanges: the list objects created by the
                         \* calls of middleware, by reference
    frames,              \* concurrent exchanges: the local variables of each call
                         \* of middleware, and what its handler received and sent
    deps,                \* instrument_fastapi: whether the Langfuse keys are set and
                         \* the opentelemetry packages import
    instr,               \* instrument_fastapi: how the call ended and what it
                         \* installed, or the marker NoResult
    otel,                \* the span of the exchange in the instrumented stack that
                         \* the capture middleware wraps: "unopened" | "open" | "closed"
    db,                  \* CacheBackedContextStore: the DbRepository, key -> value
    cache,               \* CacheBackedContextStore: the cache ContextStore, key -> value
    procs                \* CacheBackedContextStore: the calls in progress and done

mvars == <<config, scope, span, mode, sendPc, pending,
           request_body_parts, response_status, response_body_parts,
           attrs, commit, produced, received, emitted, sent, log>>
tvars == <<tbody, tcap, tres>>
evars == <<ebody, eres>>
cvars == <<environ, built>>
xvars == <<heap, frames>>
ivars == <<deps, instr, otel>>
kvars == <<db, cache, procs>>
ovars == <<evars, cvars, xvars, ivars, kvars>>
vars == <<mvars, tvars, ovars>>

(***************************************************************************)
(* Bounds of the model.                                                    *)
(***************************************************************************)
MaxSizeKb == 1      \* caps range over -1 .. MaxSizeKb kilobytes
MaxTail == 2        \* free bytes placed around the padding of a test body
MaxMsgs == 4        \* messages of one exchange, both directions together

KiB == 1024

Min(a, b) == IF a < b THEN a ELSE b
Max(a, b) == IF a > b THEN a ELSE b

(***************************************************************************)
(* Python dict.get(key, default)                                           *)
(***************************************************************************)
Get(d, k, default) == IF k \in DOMAIN d THEN d[k] ELSE default

(***************************************************************************)
(* bytes.decode("utf-8"), strict: a left-to-right automaton over the       *)
(* bytes.  need = continuation bytes still expected, lo..hi = range the    *)
(* next continuation byte must lie in, cp = code point being assembled.    *)
(***************************************************************************)
Utf8Start == [ok |-> TRUE, need |-> 0, lo |-> 128, hi |-> 191, cp |-> 0, out |-> <<>>]

Utf8Bad(q) == [q EXCEPT !.ok = FALSE]

Utf8Lead(q, b) ==
    IF b <= 127 THEN [q EXCEPT !.out = Append(q.out, b)]
    ELSE IF b >= 194 /\ b <= 223
        THEN [q EXCEPT !.need = 1, !.lo = 128, !.hi = 191, !.cp = b - 192]
    ELSE IF b = 224
        THEN [q EXCEPT !.need = 2, !.lo = 160, !.hi = 191, !.cp = 0]
    ELSE IF b = 237
        THEN [q EXCEPT !.need = 2, !.lo = 128, !.hi = 159, !.cp = 13]
    ELSE IF b >= 225 /\ b <= 239
        THEN [q EXCEPT !.need = 2, !.lo = 128, !.hi = 191, !.cp = b - 224]
    ELSE IF b = 240
        THEN [q EXCEPT !.need = 3, !.lo = 144, !.hi = 191, !.cp = 0]
    ELSE IF b >= 241 /\ b <= 243
        THEN [q EXCEPT !.need = 3, !.lo = 128, !.hi = 191, !.cp = b - 240]
    ELSE IF b = 244
        THEN [q EXCEPT !.need = 3, !.lo = 128, !.hi = 143, !.cp = 4]
    ELSE Utf8Bad(q)

Utf8Step(q, b) ==
    IF ~q.ok THEN q
    ELSE IF q.need = 0 THEN Utf8Lead(q, b)
    ELSE IF b < q.lo \/ b > q.hi THEN Utf8Bad(q)
    ELSE LET c == q.cp * 64 + (b - 128) IN
         IF q.need = 1
            THEN [q EXCEPT !.need = 0, !.cp = 0, !.out = Append(q.out, c)]
            ELSE [q EXCEPT !.need = q.need - 1, !.lo = 128, !.hi = 191, !.cp = c]

\* The automaton run over bytes[lo..hi] from state q, stopping at the first
\* bad byte (the range is split in halves, so that the depth of the
\* evaluation is logarithmic in the length).
RECURSIVE Utf8Run(_, _, _, _)
Utf8Run(bytes, lo, hi, q) ==
    IF ~q.ok \/ lo > hi THEN q
    ELSE IF lo = hi THEN Utf8Step(q, bytes[lo])
    ELSE LET mid == (lo + hi) \div 2
             left == Utf8Run(bytes, lo, mid, q)
         IN  IF left.ok THEN Utf8Run(bytes, mid + 1, hi, left) ELSE left

\* [ok |-> TRUE, text |-> code points] or [ok |-> FALSE] (UnicodeDecodeError)
Utf8Decode(bytes) ==
    LET q == Utf8Run(bytes, 1, Len(bytes), Utf8Start) IN
    IF q.ok /\ q.need = 0 THEN [ok |-> TRUE, text |-> q.out] ELSE [ok |-> FALSE]

(***************************************************************************)
(* base64.b64encode(bytes).decode("ascii")                                 *)
(***************************************************************************)
B64Char(s) ==
    IF s < 26 THEN 65 + s
    ELSE IF s < 52 THEN 97 + (s - 26)
    ELSE IF s < 62 THEN 48 + (s - 52)
    ELSE IF s = 62 THEN 43
    ELSE 47

Pow64(j) == IF j = 0 THEN 1 ELSE IF j = 1 THEN 64 ELSE IF j = 2 THEN 4096 ELSE 262144

B64Encode(bytes) ==
    LET n == Len(bytes)
        groups == (n + 2) \div 3
        ByteAt(i) == IF i <= n THEN bytes[i] ELSE 0
        Val(g) == ByteAt(3 * g + 1) * 65536 + ByteAt(3 * g + 2) * 256 + ByteAt(3 * g + 3)
    IN  [k \in 1..(4 * groups) |->
            LET g == (k - 1) \div 4
                j == (k - 1) % 4
            IN  IF (j = 2 /\ 3 * g + 2 > n) \/ (j = 3 /\ 3 * g + 3 > n)
                   THEN 61
                   ELSE B64Char((Val(g) \div Pow64(3 - j)) % 64)]

(***************************************************************************)
(* str(n) for an integer n, as code points                                 *)
(***************************************************************************)
RECURSIVE NatStr(_)
NatStr(n) == IF n < 10 THEN <<48 + n>> ELSE Append(NatStr(n \div 10), 48 + (n % 10))

IntStr(n) == IF n < 0 THEN <<45>> \o NatStr(0 - n) ELSE NatStr(n)

\* "\n\n[... truncated "
SuffixHead == <<10, 10, 91, 46, 46, 46, 32, 116, 114, 117, 110, 99, 97, 116, 101, 100, 32>>
\* " bytes ...]"
SuffixTail == <<32, 98, 121, 116, 101, 115, 32, 46, 46, 46, 93>>

(***************************************************************************)
(* body[:k] for a Python int k (a negative k counts from the end)          *)
(***************************************************************************)
SliceTo(body, k) ==
    IF k >= 0 THEN SubSeq(body, 1, Min(k, Len(body)))
    ELSE SubSeq(body, 1, Max(0, Len(body) + k))

(***************************************************************************)
(* _truncate_body(body, max_size_kb)                                       *)
(***************************************************************************)
\* lines 69-75: try UTF-8 decode, fall back to base64
EncodeCaptured(captured_body) ==
    LET dec == Utf8Decode(captured_body) IN
    IF dec.ok THEN [content |-> dec.text, encoding |-> "utf-8"]
    ELSE [content |-> B64Encode(captured_body), encoding |-> "base64"]

\* line 79: f"\n\n[... truncated {n} bytes ...]"
Suffix(n) == SuffixHead \o IntStr(n) \o SuffixTail

\* mutant: ">=" for ">" in line 64
TruncateBodyGe(body, max_size_kb) ==
    LET max_bytes == max_size_kb * KiB
        size_bytes == Len(body)
        truncated == size_bytes >= max_bytes
        captured_body == IF truncated THEN SliceTo(body, max_bytes) ELSE body
        enc == EncodeCaptured(captured_body)
    IN  [content |-> IF truncated
                        THEN enc.content \o Suffix(size_bytes - max_bytes)
                        ELSE enc.content,
         size_bytes |-> size_bytes,
         truncated |-> truncated,
         encoding |-> enc.encoding]

\* mutant: the omitted count of line 79 taken from the length of the content
TruncateBodyCountFromContent(body, max_size_kb) ==
    LET max_bytes == max_size_kb * KiB
        size_bytes == Len(body)
        truncated == size_bytes > max_bytes
        captured_body == IF truncated THEN SliceTo(body, max_bytes) ELSE body
        enc == EncodeCaptured(captured_body)
    IN  [content |-> IF truncated
                        THEN enc.content \o Suffix(size_bytes - Len(enc.content))
                        ELSE enc.content,
         size_bytes |-> size_bytes,
         truncated |-> truncated,
         encoding |-> enc.encoding]

TruncateBody(body, max_size_kb) ==
    LET max_bytes == max_size_kb * KiB
        size_bytes == Len(body)
        truncated == size_bytes > max_bytes
        captured_body == IF truncated THEN SliceTo(body, max_bytes) ELSE body
        enc == EncodeCaptured(captured_body)
    IN  [content |-> IF truncated
                        THEN enc.content \o Suffix(size_bytes - max_bytes)
                        ELSE enc.content,
         size_bytes |-> size_bytes,
         truncated |-> truncated,
         encoding |-> enc.encoding]

(***************************************************************************)
(* Inputs of _truncate_body: a run of padding bytes with up to MaxTail     *)
(* free bytes before or after it, so that bodies end below, at and above   *)
(* each cap, and multi-byte characters and invalid bytes sit on the cut.   *)
(***************************************************************************)
\* 'x', the two bytes of U+00E9, the lead byte of a 3-byte character, and a
\* byte that never occurs in UTF-8
ByteAlphabet == {120, 195, 169, 226, 255}

Pad(n) == [i \in 1..n |-> 120]

Tails == UNION {[1..n -> ByteAlphabet] : n \in 0..MaxTail}

PadLens == {0} \cup UNION {{k * KiB - 1, k * KiB} : k \in 1..MaxSizeKb}

Bodies == {Pad(n) \o t : n \in PadLens, t \in Tails}
              \cup {t \o Pad(n) : n \in PadLens, t \in Tails}

Caps == -1..MaxSizeKb

NoResult == [called |-> FALSE]

(***************************************************************************)
(* JSON values: what json.loads returns and json.dumps accepts.  A str is  *)
(* a sequence of code points, a dict a sequence of <<key, value>> pairs in *)
(* insertion order (the order json.dumps writes them in).                  *)
(***************************************************************************)
JStr(s) == [t |-> "str", v |-> s]
JInt(n) == [t |-> "int", v |-> n]
JBool(b) == [t |-> "bool", v |-> b]
JNull == [t |-> "null"]
JArr(items) == [t |-> "arr", v |-> items]
JObj(pairs) == [t |-> "obj", v |-> pairs]

\* concatenation of the sequences f[lo], ..., f[hi]
RECURSIVE Flatten(_, _, _)
Flatten(f, lo, hi) ==
    IF lo > hi THEN <<>>
    ELSE IF lo = hi THEN f[lo]
    ELSE LET mid == (lo + hi) \div 2 IN Flatten(f, lo, mid) \o Flatten(f, mid + 1, hi)

HexDigit(d) == IF d < 10 THEN 48 + d ELSE 97 + (d - 10)

\* \uXXXX
UEscape(c) ==
    <<92, 117, HexDigit((c \div 4096) % 16), HexDigit((c \div 256) % 16),
      HexDigit((c \div 16) % 16), HexDigit(c % 16)>>

\* json.dumps of one character of a str (ensure_ascii=True: everything
\* outside " " .. "~" is escaped)
DumpChar(c) ==
    IF c = 34 THEN <<92, 34>>
    ELSE IF c = 92 THEN <<92, 92>>
    ELSE IF c = 10 THEN <<92, 110>>
    ELSE IF c = 13 THEN <<92, 114>>
    ELSE IF c = 9 THEN <<92, 116>>
    ELSE IF c = 8 THEN <<92, 98>>
    ELSE IF c = 12 THEN <<92, 102>>
    ELSE IF c < 32 \/ (c > 126 /\ c < 65536) THEN UEscape(c)
    ELSE IF c >= 65536
        THEN UEscape(55296 + ((c - 65536) \div 1024)) \o UEscape(56320 + ((c - 65536) % 1024))
    ELSE <<c>>

DumpStr(s) == <<34>> \o Flatten([i \in 1..Len(s) |-> DumpChar(s[i])], 1, Len(s)) \o <<34>>

\* json.dumps(value) with the default separators ", " and ": "
RECURSIVE JsonDumps(_)
JsonDumps(x) ==
    CASE x.t = "str" -> DumpStr(x.v)
      [] x.t = "int" -> IntStr(x.v)
      [] x.t = "bool" -> IF x.v THEN <<116, 114, 117, 101>> ELSE <<102, 97, 108, 115, 101>>
      [] x.t = "null" -> <<110, 117, 108, 108>>
      [] x.t = "arr" ->
            <<91>> \o Flatten([i \in 1..Len(x.v) |->
                          (IF i > 1 THEN <<44, 32>> ELSE <<>>) \o JsonDumps(x.v[i])],
                      1, Len(x.v)) \o <<93>>
      [] x.t = "obj" ->
            <<123>> \o Flatten([i \in 1..Len(x.v) |->
                          (IF i > 1 THEN <<44, 32>> ELSE <<>>) \o DumpStr(x.v[i][1])
                              \o <<58, 32>> \o JsonDumps(x.v[i][2])],
                      1, Len(x.v)) \o <<125>>

(***************************************************************************)
(* json.loads(text): a recursive-descent parser.  Every parser returns     *)
(* [ok |-> TRUE, val |-> value, next |-> index after it] or [ok |-> FALSE] *)
(* (json.JSONDecodeError).  Numbers are integers; the texts of the model   *)
(* hold no fractions or exponents.                                         *)
(***************************************************************************)
ParseFail == [ok |-> FALSE]
Parsed(val, next) == [ok |-> TRUE, val |-> val, next |-> next]

IsWs(c) == c \in {32, 9, 10, 13}
IsDigit(c) == c >= 48 /\ c <= 57
IsHex(c) == IsDigit(c) \/ (c >= 97 /\ c <= 102) \/ (c >= 65 /\ c <= 70)
HexVal(c) == IF IsDigit(c) THEN c - 48 ELSE IF c >= 97 THEN c - 87 ELSE c - 55

RECURSIVE SkipWs(_, _)
SkipWs(s, i) == IF i <= Len(s) /\ IsWs(s[i]) THEN SkipWs(s, i + 1) ELSE i

HasAt(s, i, lit) == i + Len(lit) - 1 <= Len(s) /\ SubSeq(s, i, i + Len(lit) - 1) = lit

\* dict[k] = v: replaces the value of an existing key, else appends the pair
DictSet(pairs, k, v) ==
    IF \E j \in 1..Len(pairs) : pairs[j][1] = k
       THEN [j \in 1..Len(pairs) |-> IF pairs[j][1] = k THEN <<k, v>> ELSE pairs[j]]
       ELSE Append(pairs, <<k, v>>)

HasKey(pairs, k) == \E j \in 1..Len(pairs) : pairs[j][1] = k
DictGet(pairs, k) == pairs[CHOOSE j \in 1..Len(pairs) : pairs[j][1] = k][2]

\* the four hex digits of a \uXXXX escape at s[i..i+3], or -1
Hex4(s, i) ==
    IF i + 3 <= Len(s) /\ \A j \in i..(i + 3) : IsHex(s[j])
       THEN HexVal(s[i]) * 4096 + HexVal(s[i + 1]) * 256 + HexVal(s[i + 2]) * 16 + HexVal(s[i + 3])
       ELSE -1

SimpleEscape(e) ==
    CASE e = 34 -> 34 [] e = 92 -> 92 [] e = 47 -> 47 [] e = 98 -> 8
      [] e = 102 -> 12 [] e = 110 -> 10 [] e = 114 -> 13 [] e = 116 -> 9
      [] OTHER -> -1

\* the first index from i on of a quote, a backslash or a control character
\* (0 when there is none): the end of a run of plain characters
RunEnd(s, i) ==
    LET stops == {k \in i..Len(s) : s[k] = 34 \/ s[k] = 92 \/ s[k] < 32} IN
    IF stops = {} THEN 0 ELSE CHOOSE k \in stops : \A j \in stops : k <= j

\* a \uXXXX escape at the backslash s[k], u its value and low the value of
\* a \uXXXX that follows it (-1 without one): a surrogate pair is one
\* character
UnicodeEscape(k, u, low) ==
    IF u < 0 THEN [ok |-> FALSE]
    ELSE IF u >= 55296 /\ u <= 56319 /\ low >= 56320 /\ low <= 57343
        THEN [ok |-> TRUE, c |-> 65536 + (u - 55296) * 1024 + (low - 56320), next |-> k + 12]
    ELSE [ok |-> TRUE, c |-> u, next |-> k + 6]

\* the escape at the backslash s[k]: its character and the index after it
EscapeAt(s, k) ==
    IF k + 1 > Len(s) THEN [ok |-> FALSE]
    ELSE IF s[k + 1] = 117
        THEN UnicodeEscape(k, Hex4(s, k + 2),
                           IF HasAt(s, k + 6, <<92, 117>>) THEN Hex4(s, k + 8) ELSE -1)
    ELSE IF SimpleEscape(s[k + 1]) < 0 THEN [ok |-> FALSE]
    ELSE [ok |-> TRUE, c |-> SimpleEscape(s[k + 1]), next |-> k + 2]

\* the characters of a string literal from s[i] up to its closing quote,
\* taken as json.decoder.py_scanstring takes them: a run of plain characters
\* (ending at k), then the quote or one escape
RECURSIVE ParseChars(_, _, _)
RECURSIVE ParseEscaped(_, _, _)
RECURSIVE ParseRun(_, _, _, _)
ParseEscaped(s, acc, esc) ==
    IF ~esc.ok THEN ParseFail ELSE ParseChars(s, esc.next, Append(acc, esc.c))

ParseRun(s, i, acc, k) ==
    IF k = 0 THEN ParseFail
    ELSE IF s[k] = 34 THEN Parsed(JStr(acc \o SubSeq(s, i, k - 1)), k + 1)
    ELSE IF s[k] < 32 THEN ParseFail
    ELSE ParseEscaped(s, acc \o SubSeq(s, i, k - 1), EscapeAt(s, k))

ParseChars(s, i, acc) == ParseRun(s, i, acc, RunEnd(s, i))

RECURSIVE ParseDigits(_, _, _)
ParseDigits(s, i, n) ==
    IF i <= Len(s) /\ IsDigit(s[i]) THEN ParseDigits(s, i + 1, n * 10 + (s[i] - 48))
    ELSE Parsed(JInt(n), i)

\* an integer literal at s[i]: -?(0|[1-9][0-9]*)
ParseNumber(s, i) ==
    LET neg == s[i] = 45
        j == IF neg THEN i + 1 ELSE i
    IN  IF j > Len(s) \/ ~IsDigit(s[j]) THEN ParseFail
        ELSE LET r == IF s[j] = 48 THEN Parsed(JInt(0), j + 1) ELSE ParseDigits(s, j, 0)
             IN  IF neg THEN Parsed(JInt(0 - r.val.v), r.next) ELSE r

RECURSIVE ParseValue(_, _)
RECURSIVE ParseItems(_, _, _)
RECURSIVE ParseMembers(_, _, _)

\* the items of an array after "[" or ",": s[i] starts an item
ParseItems(s, i, acc) ==
    LET r == ParseValue(s, SkipWs(s, i)) IN
    IF ~r.ok THEN ParseFail
    ELSE LET k == SkipWs(s, r.next) IN
         IF k > Len(s) THEN ParseFail
         ELSE IF s[k] = 44 THEN ParseItems(s, k + 1, Append(acc, r.val))
         ELSE IF s[k] = 93 THEN Parsed(JArr(Append(acc, r.val)), k + 1)
         ELSE ParseFail

\* the members of an object after "{" or ",": s[i] starts a key
ParseMembers(s, i, acc) ==
    LET k0 == SkipWs(s, i) IN
    IF k0 > Len(s) \/ s[k0] # 34 THEN ParseFail
    ELSE LET key == ParseChars(s, k0 + 1, <<>>) IN
         IF ~key.ok THEN ParseFail
         ELSE LET c == SkipWs(s, key.next) IN
              IF c > Len(s) \/ s[c] # 58 THEN ParseFail
              ELSE LET r == ParseValue(s, SkipWs(s, c + 1)) IN
                   IF ~r.ok THEN ParseFail
                   ELSE LET k == SkipWs(s, r.next)
                            acc2 == DictSet(acc, key.val.v, r.val)
                        IN  IF k > Len(s) THEN ParseFail
                            ELSE IF s[k] = 44 THEN ParseMembers(s, k + 1, acc2)
                            ELSE IF s[k] = 125 THEN Parsed(JObj(acc2), k + 1)
                            ELSE ParseFail

ParseValue(s, i) ==
    IF i > Len(s) THEN ParseFail
    ELSE IF s[i] = 34 THEN ParseChars(s, i + 1, <<>>)
    ELSE IF s[i] = 123 THEN
        LET k == SkipWs(s, i + 1) IN
        IF k <= Len(s) /\ s[k] = 125 THEN Parsed(JObj(<<>>), k + 1)
        ELSE ParseMembers(s, k, <<>>)
    ELSE IF s[i] = 91 THEN
        LET k == SkipWs(s, i + 1) IN
        IF k <= Len(s) /\ s[k] = 93 THEN Parsed(JArr(<<>>), k + 1)
        ELSE ParseItems(s, k, <<>>)
    ELSE IF HasAt(s, i, <<116, 114, 117, 101>>) THEN Parsed(JBool(TRUE), i + 4)
    ELSE IF HasAt(s, i, <<102, 97, 108, 115, 101>>) THEN Parsed(JBool(FALSE), i + 5)
    ELSE IF HasAt(s, i, <<110, 117, 108, 108>>) THEN Parsed(JNull, i + 4)
    ELSE IF s[i] = 45 \/ IsDigit(s[i]) THEN ParseNumber(s, i)
    ELSE ParseFail

\* [ok |-> TRUE, val |-> value] or [ok |-> FALSE] when the text is not one
\* JSON document
JsonLoads(text) ==
    LET r == ParseValue(text, SkipWs(text, 1)) IN
    IF r.ok /\ SkipWs(text, r.next) > Len(text) THEN [ok |-> TRUE, val |-> r.val]
    ELSE [ok |-> FALSE]

(***************************************************************************)
(* String literals of the source, as code points                           *)
(***************************************************************************)
K_method == <<109, 101, 116, 104, 111, 100>>
K_path == <<112, 97, 116, 104>>
K_body == <<98, 111, 100, 121>>
K_body_size == <<98, 111, 100, 121, 95, 115, 105, 122, 101>>
K_status == <<115, 116, 97, 116, 117, 115>>
K_truncated == <<116, 114, 117, 110, 99, 97, 116, 101, 100>>
K_error == <<101, 114, 114, 111, 114>>
K_detail == <<100, 101, 116, 97, 105, 108>>
K_message == <<109, 101, 115, 115, 97, 103, 101>>
\* a key of the nested detail in tests/unit/test_otel_capture.py
K_code == <<99, 111, 100, 101>>

\* "/health,/docs,/redoc" split at "," and stripped
DefaultExcludedPaths ==
    << <<47, 104, 101, 97, 108, 116, 104>>, <<47, 100, 111, 99, 115>>,
       <<47, 114, 101, 100, 111, 99>> >>

\* str.startswith
StartsWith(str, prefix) ==
    Len(prefix) <= Len(str) /\ SubSeq(str, 1, Len(prefix)) = prefix

\* b"".join(parts)
Join(parts) == Flatten(parts, 1, Len(parts))

(***************************************************************************)
(* OtelCaptureConfig.__init__, lines 23-34.  An environment variable is    *)
(* Unset or holds a str.                                                   *)
(***************************************************************************)
Unset == [set |-> FALSE]
SetTo(value) == [set |-> TRUE, value |-> value]

\* os.getenv(name, default)
Getenv(var, default) == IF var.set THEN var.value ELSE default

\* str.isspace of one character
IsSpace(c) ==
    \/ (c >= 9 /\ c <= 13) \/ (c >= 28 /\ c <= 32)
    \/ c \in {133, 160, 5760, 8232, 8233, 8239, 8287, 12288}
    \/ (c >= 8192 /\ c <= 8202)

\* str.strip()
Strip(str) ==
    LET solid == {i \in 1..Len(str) : ~IsSpace(str[i])} IN
    IF solid = {} THEN <<>>
    ELSE SubSeq(str, CHOOSE i \in solid : \A j \in solid : i <= j,
                     CHOOSE i \in solid : \A j \in solid : i >= j)

\* str.lower() of one character: the letters A-Z and those of Latin-1, the
\* Kelvin and Angstrom signs; other cased characters do not occur in the
\* texts of the model
LowerChar(c) ==
    IF c >= 65 /\ c <= 90 THEN c + 32
    ELSE IF c >= 192 /\ c <= 222 /\ c # 215 THEN c + 32
    ELSE IF c = 8490 THEN 107
    ELSE IF c = 8491 THEN 229
    ELSE c

Lower(str) == [i \in 1..Len(str) |-> LowerChar(str[i])]

\* "1", "true", "yes"
TruthyWords == {<<49>>, <<116, 114, 117, 101>>, <<121, 101, 115>>}

\* mutant: the value compared as it is, not lower-cased
ParseEnabledCaseSensitive(var) == Strip(Getenv(var, <<116, 114, 117, 101>>)) \in TruthyWords

\* lines 25-29
ParseEnabled(var) == Lower(Strip(Getenv(var, <<116, 114, 117, 101>>))) \in TruthyWords

\* the value of a decimal digit: ASCII and full-width digits; -1 for any
\* other character (other digits do not occur in the texts of the model)
DigitValue(c) ==
    IF c >= 48 /\ c <= 57 THEN c - 48
    ELSE IF c >= 65296 /\ c <= 65305 THEN c - 65296
    ELSE -1

RECURSIVE DigitsToInt(_, _, _)
DigitsToInt(str, i, n) ==
    IF i > Len(str) THEN n
    ELSE IF str[i] = 95 THEN DigitsToInt(str, i + 1, n)
    ELSE DigitsToInt(str, i + 1, n * 10 + DigitValue(str[i]))

\* int(str): surrounding whitespace, one sign, digits with single
\* underscores between them; [ok |-> FALSE] is ValueError
ParseInt(str) ==
    LET t == Strip(str)
        signed == t # <<>> /\ t[1] \in {43, 45}
        d == IF signed THEN SubSeq(t, 2, Len(t)) ELSE t
        wellFormed ==
            /\ d # <<>>
            /\ DigitValue(d[1]) >= 0 /\ DigitValue(d[Len(d)]) >= 0
            /\ \A i \in 1..Len(d) : DigitValue(d[i]) >= 0 \/ d[i] = 95
            /\ \A i \in 1..(Len(d) - 1) : ~(d[i] = 95 /\ d[i + 1] = 95)
    IN  IF ~wellFormed THEN [ok |-> FALSE]
        ELSE [ok |-> TRUE,
              val |-> IF signed /\ t[1] = 45 THEN 0 - DigitsToInt(d, 1, 0)
                      ELSE DigitsToInt(d, 1, 0)]

\* str.split(","): the pieces between the commas, empty ones included
Split(str) ==
    LET commas == {i \in 1..Len(str) : str[i] = 44}
        cuts == {0} \cup commas \cup {Len(str) + 1}
        Next_(c) == CHOOSE k \in cuts : k > c /\ \A j \in cuts : j > c => k <= j
        RECURSIVE Pieces(_)
        Pieces(c) == IF c = Len(str) + 1 THEN <<>>
                     ELSE <<SubSeq(str, c + 1, Next_(c) - 1)>> \o Pieces(Next_(c))
    IN  Pieces(0)

\* "10"
DefaultMaxBodySizeKb == <<49, 48>>

\* "/health,/docs,/redoc"
DefaultExcludePaths ==
    <<47, 104, 101, 97, 108, 116, 104, 44, 47, 100, 111, 99, 115, 44,
      47, 114, 101, 100, 111, 99>>

\* mutant: items that are empty after the trim are dropped
ParseExcludedPathsNonEmpty(var) ==
    LET pieces == Split(Getenv(var, DefaultExcludePaths))
        kept == SelectSeq(pieces, LAMBDA piece : Strip(piece) # <<>>)
    IN  [i \in 1..Len(kept) |-> Strip(kept[i])]

\* lines 31-34
ParseExcludedPaths(var) ==
    LET pieces == Split(Getenv(var, DefaultExcludePaths)) IN
    [i \in 1..Len(pieces) |-> Strip(pieces[i])]

\* mutant: a value int() rejects replaced by the default "10"
OtelCaptureConfigFallback(env) ==
    LET size == ParseInt(Getenv(env.max_body_size_kb, DefaultMaxBodySizeKb)) IN
    [called |-> TRUE, raised |-> "",
     config |-> [enabled |-> ParseEnabled(env.enabled),
                 max_body_size_kb |-> IF size.ok THEN size.val ELSE 10,
                 excluded_paths |-> ParseExcludedPaths(env.excluded_paths)]]

\* OtelCaptureConfig(): the object, or the ValueError of int() in line 30
OtelCaptureConfig(env) ==
    LET size == ParseInt(Getenv(env.max_body_size_kb, DefaultMaxBodySizeKb)) IN
    IF ~size.ok THEN [called |-> TRUE, raised |-> "ValueError"]
    ELSE [called |-> TRUE, raised |-> "",
          config |-> [enabled |-> ParseEnabled(env.enabled),
                      max_body_size_kb |-> size.val,
                      excluded_paths |-> ParseExcludedPaths(env.excluded_paths)]]

(***************************************************************************)
(* bytes.decode("utf-8", errors="replace"): the automaton of the strict    *)
(* decoder; a byte that cannot start a character, and the bytes of a       *)
(* character cut short (by a byte that cannot continue it, or by the end), *)
(* become one U+FFFD each, and decoding resumes at the offending byte.     *)
(***************************************************************************)
Replacement == 65533

ReplaceStep(q, b) ==
    LET bad == [Utf8Start EXCEPT !.out = Append(q.out, Replacement)]
        r == IF q.need = 0 THEN Utf8Lead(q, b) ELSE Utf8Step(q, b)
    IN  IF r.ok THEN r
        ELSE IF q.need = 0 THEN bad
        ELSE LET again == Utf8Lead(bad, b) IN
             IF again.ok THEN again
             ELSE [Utf8Start EXCEPT !.out = Append(bad.out, Replacement)]

RECURSIVE ReplaceRun(_, _, _, _)
ReplaceRun(bytes, lo, hi, q) ==
    IF lo > hi THEN q
    ELSE IF lo = hi THEN ReplaceStep(q, bytes[lo])
    ELSE LET mid == (lo + hi) \div 2
             left == ReplaceRun(bytes, lo, mid, q)
         IN  IF left.ok THEN ReplaceRun(bytes, mid + 1, hi, left) ELSE left

Utf8DecodeReplace(bytes) ==
    LET q == ReplaceRun(bytes, 1, Len(bytes), Utf8Start) IN
    IF q.need = 0 THEN q.out ELSE Append(q.out, Replacement)

(***************************************************************************)
(* str(value) and repr(value) of what json.loads returned                  *)
(***************************************************************************)
\* "\xNN"
XEscape(c) == <<92, 120, HexDigit((c \div 16) % 16), HexDigit(c % 16)>>

\* str.isprintable of one character, for the characters up to U+00FF, the
\* surrogates and U+FFFD; other characters do not occur in the texts of the
\* model
IsPrintable(c) ==
    /\ c >= 32 /\ c # 127
    /\ ~(c >= 128 /\ c <= 160) /\ c # 173
    /\ ~(c >= 55296 /\ c <= 57343)

\* one character inside repr(str), quoted with the quote character q
ReprChar(c, q) ==
    IF c = q \/ c = 92 THEN <<92, c>>
    ELSE IF c = 9 THEN <<92, 116>>
    ELSE IF c = 10 THEN <<92, 110>>
    ELSE IF c = 13 THEN <<92, 114>>
    ELSE IF IsPrintable(c) THEN <<c>>
    ELSE IF c < 256 THEN XEscape(c)
    ELSE UEscape(c)

\* repr(str): single quotes, unless the text has a single quote and no
\* double quote
ReprStr(str) ==
    LET has1 == \E i \in 1..Len(str) : str[i] = 39
        has2 == \E i \in 1..Len(str) : str[i] = 34
        q == IF has1 /\ ~has2 THEN 34 ELSE 39
    IN  <<q>> \o Flatten([i \in 1..Len(str) |-> ReprChar(str[i], q)], 1, Len(str)) \o <<q>>

RECURSIVE PyRepr(_)
PyRepr(x) ==
    CASE x.t = "str" -> ReprStr(x.v)
      [] x.t = "int" -> IntStr(x.v)
      [] x.t = "bool" -> IF x.v THEN <<84, 114, 117, 101>> ELSE <<70, 97, 108, 115, 101>>
      [] x.t = "null" -> <<78, 111, 110, 101>>
      [] x.t = "arr" ->
            <<91>> \o Flatten([i \in 1..Len(x.v) |->
                          (IF i > 1 THEN <<44, 32>> ELSE <<>>) \o PyRepr(x.v[i])],
                      1, Len(x.v)) \o <<93>>
      [] x.t = "obj" ->
            <<123>> \o Flatten([i \in 1..Len(x.v) |->
                          (IF i > 1 THEN <<44, 32>> ELSE <<>>) \o ReprStr(x.v[i][1])
                              \o <<58, 32>> \o PyRepr(x.v[i][2])],
                      1, Len(x.v)) \o <<125>>

\* str(x): a str is itself, anything else its repr
PyStr(x) == IF x.t = "str" THEN x.v ELSE PyRepr(x)

(***************************************************************************)
(* _capture_error_details(span, body), lines 90-109                        *)
(***************************************************************************)
\* text occurs in str as a substring
IsSubstring(text, str) ==
    \E i \in 0..(Len(str) - Len(text)) : SubSeq(str, i + 1, i + Len(text)) = text

\* key in x: "true"/"false", or "TypeError" when x is not a container
Contains(key, x) ==
    CASE x.t = "obj" -> IF HasKey(x.v, key) THEN "true" ELSE "false"
      [] x.t = "arr" -> IF \E i \in 1..Len(x.v) : x.v[i] = JStr(key) THEN "true" ELSE "false"
      [] x.t = "str" -> IF IsSubstring(key, x.v) THEN "true" ELSE "false"
      [] OTHER -> "TypeError"

\* the call returned, having made these set_attribute calls
Returned(calls) == [called |-> TRUE, raised |-> "", calls |-> calls]
\* the call ended in an exception it does not catch
Raised(exc) == [called |-> TRUE, raised |-> exc, calls |-> <<>>]

\* lines 103-106 for one of the two keys: x[key] is defined on a dict only
SetFrom(name, key, x) ==
    IF x.t = "obj" THEN Returned(<< <<name, PyStr(DictGet(x.v, key))>> >>)
    ELSE Raised("TypeError")

\* mutant: the body decoded whole, then cut to 200 characters
RawErrorDecodeFirst(body) ==
    LET text == Utf8DecodeReplace(body) IN SubSeq(text, 1, Min(200, Len(text)))

\* line 109
RawError(body) == Utf8DecodeReplace(SliceTo(body, 200))

CaptureErrorDetails(body) ==
    LET dec == Utf8Decode(body) IN
    IF ~dec.ok THEN Returned(<< <<"http.response.error.raw", RawError(body)>> >>)
    ELSE LET error_data == JsonLoads(dec.text) IN
    IF ~error_data.ok THEN Returned(<< <<"http.response.error.raw", RawError(body)>> >>)
    ELSE LET hasDetail == Contains(K_detail, error_data.val) IN
    IF hasDetail = "TypeError" THEN Raised("TypeError")
    ELSE IF hasDetail = "true"
        THEN SetFrom("http.response.error.detail", K_detail, error_data.val)
    ELSE IF Contains(K_message, error_data.val) = "true"
        THEN SetFrom("http.response.error.message", K_message, error_data.val)
    ELSE Returned(<<>>)

(***************************************************************************)
(* The environment of one exchange: configurations, scopes, the messages   *)
(* the outer receive can produce and the handler can send.                 *)
(***************************************************************************)
EnabledConfig(kb) ==
    [enabled |-> TRUE, max_body_size_kb |-> kb, excluded_paths |-> DefaultExcludedPaths]

DisabledConfig ==
    [enabled |-> FALSE, max_body_size_kb |-> 1, excluded_paths |-> DefaultExcludedPaths]

PostEcho ==
    [type |-> "http", method |-> <<80, 79, 83, 84>>, path |-> <<47, 101, 99, 104, 111>>]

\* an excluded prefix followed by one more character
GetHealthz ==
    [type |-> "http", method |-> <<71, 69, 84>>,
     path |-> <<47, 104, 101, 97, 108, 116, 104, 122>>]

\* The <<config, scope>> pairs an exchange starts from: POST /echo with the
\* cap at 0 and at 1 KB, an http scope without path and method, GET /healthz,
\* POST /echo with capture disabled, a websocket scope.
Exchanges ==
    {<<EnabledConfig(0), PostEcho>>,
     <<EnabledConfig(1), PostEcho>>,
     <<EnabledConfig(1), [type |-> "http"]>>,
     <<EnabledConfig(1), GetHealthz>>,
     <<DisabledConfig, PostEcho>>,
     <<EnabledConfig(1), [type |-> "websocket", path |-> <<47, 101, 99, 104, 111>>]>>}

\* b'{"detail":"X"}'
DetailX == <<123, 34, 100, 101, 116, 97, 105, 108, 34, 58, 34, 88, 34, 125>>

SpanStates == {"none", "not_recording", "recording"}

RecvMsgs(sc) ==
    IF sc.type = "http"
       THEN {[type |-> "http.request", body |-> DetailX, more_body |-> TRUE],
             [type |-> "http.request", body |-> <<255>>, more_body |-> FALSE],
             [type |-> "http.request", body |-> <<>>, more_body |-> FALSE],
             [type |-> "http.disconnect"]}
       ELSE {[type |-> "websocket.receive"]}

SendMsgs(sc) ==
    IF sc.type = "http"
       THEN {[type |-> "http.response.start", status |-> 200],
             [type |-> "http.response.start", status |-> 404],
             [type |-> "http.response.body", body |-> DetailX, more_body |-> TRUE],
             [type |-> "http.response.body", body |-> <<255>>, more_body |-> TRUE],
             [type |-> "http.response.body", body |-> DetailX],
             [type |-> "http.response.body", body |-> <<>>, more_body |-> FALSE],
             [type |-> "http.response.debug"]}
       ELSE {[type |-> "websocket.send"]}

NoMsg == [type |-> "none"]
NoAttrs == [n \in {} |-> <<>>]

\* a response body message that ends the response (more_body absent or false)
IsFinalChunk(m) == m.type = "http.response.body" /\ ~Get(m, "more_body", FALSE)

FinalIn(msgs) == \E i \in 1..Len(msgs) : IsFinalChunk(msgs[i])

\* messages of the exchange so far
MsgCount == Len(produced) + Len(emitted)

\* The handler follows the ASGI response protocol in one respect: the final
\* body chunk ends the response, no start or body message follows it.
MaySend(m) == m.type \in {"http.response.start", "http.response.body"} => ~FinalIn(emitted)

(***************************************************************************)
(* middleware(scope, receive, send), lines 124-133: the early exit         *)
(***************************************************************************)
\* mutant: "==" for startswith in line 131
PassThroughExactPath(cfg, sc) ==
    IF sc.type # "http" \/ ~cfg.enabled THEN TRUE
    ELSE LET path == Get(sc, "path", <<47>>) IN
         \E i \in 1..Len(cfg.excluded_paths) : path = cfg.excluded_paths[i]

PassThrough(cfg, sc) ==
    IF sc.type # "http" \/ ~cfg.enabled THEN TRUE
    ELSE LET path == Get(sc, "path", <<47>>) IN
         \E i \in 1..Len(cfg.excluded_paths) : StartsWith(path, cfg.excluded_paths[i])

Middleware ==
    /\ mode = "new"
    /\ mode' = IF PassThrough(config, scope) THEN "passthrough" ELSE "capture"
    /\ UNCHANGED <<config, scope, span, sendPc, pending, request_body_parts,
                   response_status, response_body_parts, attrs, commit,
                   produced, received, emitted, sent, log, tvars, ovars>>

(***************************************************************************)
(* Passthrough: the handler holds the outer receive and send themselves.   *)
(***************************************************************************)
PassReceive(m) ==
    /\ mode = "passthrough"
    /\ MsgCount < MaxMsgs
    /\ produced' = Append(produced, m)
    /\ received' = Append(received, m)
    /\ UNCHANGED <<config, scope, span, mode, sendPc, pending,
                   request_body_parts, response_status, response_body_parts,
                   attrs, commit, emitted, sent, log, tvars, ovars>>

PassSend(m) ==
    /\ mode = "passthrough"
    /\ MsgCount < MaxMsgs
    /\ MaySend(m)
    /\ emitted' = Append(emitted, m)
    /\ sent' = Append(sent, m)
    /\ log' = Append(log, [ev |-> "send", n |-> Len(sent) + 1])
    /\ UNCHANGED <<config, scope, span, mode, sendPc, pending,
                   request_body_parts, response_status, response_body_parts,
                   attrs, commit, produced, received, tvars, ovars>>

(***************************************************************************)
(* receive_wrapper, lines 138-144.  "await receive()" suspends the         *)
(* wrapper: OuterReceive is the outer receive completing with a message,   *)
(* ReceiveWrapper the rest of the wrapper, run when the task resumes.      *)
(***************************************************************************)
OuterReceive(m) ==
    /\ mode = "capture" /\ sendPc = "idle"
    /\ Len(produced) = Len(received)
    /\ MsgCount < MaxMsgs
    /\ produced' = Append(produced, m)
    /\ UNCHANGED <<config, scope, span, mode, sendPc, pending,
                   request_body_parts, response_status, response_body_parts,
                   attrs, commit, received, emitted, sent, log, tvars, ovars>>

\* mutant: the body appended whatever the message type, empty or not
AccumulateRequestAny(parts, message) == Append(parts, Get(message, "body", <<>>))

\* lines 140-143
AccumulateRequest(parts, message) ==
    IF Get(message, "type", "") = "http.request" /\ Get(message, "body", <<>>) # <<>>
       THEN Append(parts, Get(message, "body", <<>>))
       ELSE parts

\* line 144
ReceiveResult(message) == message

ReceiveWrapper ==
    /\ mode = "capture" /\ sendPc = "idle"
    /\ Len(produced) > Len(received)
    /\ LET message == produced[Len(received) + 1] IN
        /\ request_body_parts' = AccumulateRequest(request_body_parts, message)
        /\ received' = Append(received, ReceiveResult(message))
    /\ UNCHANGED <<config, scope, span, mode, sendPc, pending,
                   response_status, response_body_parts, attrs, commit,
                   produced, emitted, sent, log, tvars, ovars>>

(***************************************************************************)
(* _set_span_attributes, lines 183-233, as the pieces send_wrapper runs    *)
(* through without suspending: span lookup, input record and write,        *)
(* output record and write.                                                *)
(***************************************************************************)
\* mutant: line 196 without the is_recording() test
SpanUsableAny(sp) == sp # "none"

\* line 196: "if not span or not span.is_recording(): return"
SpanUsable(sp) == sp # "none" /\ sp = "recording"

\* mutant: the first chunk taken for the whole request body
InputDataFirstChunk(sc, path, cfg, parts) ==
    LET base == << <<K_method, JStr(Get(sc, "method", <<>>))>>, <<K_path, JStr(path)>> >> IN
    IF parts # <<>>
       THEN LET req_truncated == TruncateBody(parts[1], cfg.max_body_size_kb) IN
            DictSet(DictSet(base, K_body, JStr(req_truncated.content)),
                    K_body_size, JInt(req_truncated.size_bytes))
       ELSE base

\* mutant: the truncated flag copied into the input record as it is into
\* the output record
InputDataWithTruncated(sc, path, cfg, parts) ==
    LET base == << <<K_method, JStr(Get(sc, "method", <<>>))>>, <<K_path, JStr(path)>> >> IN
    IF parts # <<>>
       THEN LET req_truncated == TruncateBody(Join(parts), cfg.max_body_size_kb)
                d1 == DictSet(DictSet(base, K_body, JStr(req_truncated.content)),
                              K_body_size, JInt(req_truncated.size_bytes))
            IN  IF req_truncated.truncated THEN DictSet(d1, K_truncated, JBool(TRUE)) ELSE d1
       ELSE base

\* lines 200-208
InputData(sc, path, cfg, parts) ==
    LET base == << <<K_method, JStr(Get(sc, "method", <<>>))>>, <<K_path, JStr(path)>> >> IN
    IF parts # <<>>
       THEN LET req_truncated == TruncateBody(Join(parts), cfg.max_body_size_kb) IN
            DictSet(DictSet(base, K_body, JStr(req_truncated.content)),
                    K_body_size, JInt(req_truncated.size_bytes))
       ELSE base

\* mutant: the error taken the way _capture_error_details takes it: "detail",
\* else "message", as str
ErrorDetailMessageFallback(resp_body) ==
    LET dec == Utf8Decode(resp_body) IN
    IF ~dec.ok THEN [has |-> FALSE]
    ELSE LET err == JsonLoads(dec.text) IN
         IF ~err.ok THEN [has |-> FALSE]
         ELSE IF err.val.t = "obj" /\ HasKey(err.val.v, K_detail)
            THEN [has |-> TRUE, val |-> JStr(PyStr(DictGet(err.val.v, K_detail)))]
         ELSE IF err.val.t = "obj" /\ HasKey(err.val.v, K_message)
            THEN [has |-> TRUE, val |-> JStr(PyStr(DictGet(err.val.v, K_message)))]
         ELSE [has |-> FALSE]

\* mutant: the key looked up is "error"
ErrorDetailErrorKey(resp_body) ==
    LET dec == Utf8Decode(resp_body) IN
    IF ~dec.ok THEN [has |-> FALSE]
    ELSE LET err == JsonLoads(dec.text) IN
         IF ~err.ok THEN [has |-> FALSE]
         ELSE IF err.val.t = "obj" /\ HasKey(err.val.v, K_error)
            THEN [has |-> TRUE, val |-> DictGet(err.val.v, K_error)]
         ELSE [has |-> FALSE]

\* mutant: a body that does not decode or parse becomes the error itself
ErrorDetailRawFallback(resp_body) ==
    LET dec == Utf8Decode(resp_body) IN
    IF ~dec.ok THEN [has |-> TRUE, val |-> JStr(<<>>)]
    ELSE LET err == JsonLoads(dec.text) IN
         IF ~err.ok THEN [has |-> TRUE, val |-> JStr(dec.text)]
         ELSE IF err.val.t = "obj" /\ HasKey(err.val.v, K_detail)
            THEN [has |-> TRUE, val |-> DictGet(err.val.v, K_detail)]
         ELSE [has |-> FALSE]

\* lines 224-229: the value of output_data["error"], when one is set.
\* "detail" in err is a key test on a dict, a membership test on a list and
\* a substring test on a str, and raises TypeError on a number, a bool and
\* None; err["detail"] raises TypeError on everything but a dict.  Every
\* exception ends in "pass".
ErrorDetail(resp_body) ==
    LET dec == Utf8Decode(resp_body) IN
    IF ~dec.ok THEN [has |-> FALSE]
    ELSE LET err == JsonLoads(dec.text) IN
         IF ~err.ok THEN [has |-> FALSE]
         ELSE IF err.val.t = "obj" /\ HasKey(err.val.v, K_detail)
            THEN [has |-> TRUE, val |-> DictGet(err.val.v, K_detail)]
         ELSE [has |-> FALSE]

\* lines 213-229
OutputData(cfg, status, parts) ==
    LET base == << <<K_status, JInt(status)>> >> IN
    IF parts # <<>>
       THEN LET resp_body == Join(parts)
                resp_truncated == TruncateBody(resp_body, cfg.max_body_size_kb)
                d1 == DictSet(DictSet(base, K_body, JStr(resp_truncated.content)),
                              K_body_size, JInt(resp_truncated.size_bytes))
                d2 == IF resp_truncated.truncated
                         THEN DictSet(d1, K_truncated, JBool(TRUE)) ELSE d1
                err == ErrorDetail(resp_body)
            IN  IF status >= 400 /\ err.has THEN DictSet(d2, K_error, err.val) ELSE d2
       ELSE base

\* span.set_attribute(name, value)
SetAttribute(a, name, value) == (name :> value) @@ a

\* line 130
ScopePath == Get(scope, "path", <<47>>)

\* mutant: the commit looks at config.enabled again and gives up when it is off
CommitLookupRechecksEnabled ==
    /\ sendPc = "lookup"
    /\ \E sp \in SpanStates :
        /\ span' = sp
        /\ IF SpanUsable(sp) /\ config.enabled
              THEN sendPc' = "input" /\ commit' = commit
              ELSE sendPc' = "forward" /\ commit' = "skipped"
    /\ UNCHANGED <<config, scope, mode, pending, request_body_parts,
                   response_status, response_body_parts, attrs,
                   produced, received, emitted, sent, log, tvars, ovars>>

\* lines 193-197: the span is looked up; no span, or one not recording,
\* ends the commit
CommitLookup ==
    /\ sendPc = "lookup"
    /\ \E sp \in SpanStates :
        /\ span' = sp
        /\ IF SpanUsable(sp)
              THEN sendPc' = "input" /\ commit' = commit
              ELSE sendPc' = "forward" /\ commit' = "skipped"
    /\ UNCHANGED <<config, scope, mode, pending, request_body_parts,
                   response_status, response_body_parts, attrs,
                   produced, received, emitted, sent, log, tvars, ovars>>

\* mutant: the commit goes on to the output record with input.value unwritten
CommitInputUnwritten ==
    /\ sendPc = "input"
    /\ sendPc' = "output"
    /\ UNCHANGED <<config, scope, span, mode, pending, request_body_parts,
                   response_status, response_body_parts, commit, attrs, log,
                   produced, received, emitted, sent, tvars, ovars>>

\* lines 199-210
CommitInput ==
    /\ sendPc = "input"
    /\ attrs' = SetAttribute(attrs, "input.value",
                    JsonDumps(JObj(InputData(scope, ScopePath, config, request_body_parts))))
    /\ log' = Append(log, [ev |-> "set_attribute", name |-> "input.value"])
    /\ sendPc' = "output"
    /\ UNCHANGED <<config, scope, span, mode, pending, request_body_parts,
                   response_status, response_body_parts, commit,
                   produced, received, emitted, sent, tvars, ovars>>

\* lines 212-231
CommitOutput ==
    /\ sendPc = "output"
    /\ attrs' = SetAttribute(attrs, "output.value",
                    JsonDumps(JObj(OutputData(config, response_status, response_body_parts))))
    /\ log' = Append(log, [ev |-> "set_attribute", name |-> "output.value"])
    /\ sendPc' = "forward"
    /\ commit' = "ok"
    /\ UNCHANGED <<config, scope, span, mode, pending, request_body_parts,
                   response_status, response_body_parts,
                   produced, received, emitted, sent, tvars, ovars>>

\* mutant: no "except Exception": the exception leaves send_wrapper, the
\* forward of line 176 is not reached
CommitRaisePropagates ==
    /\ sendPc \in {"lookup", "input", "output"}
    /\ sendPc' = "raised"
    /\ commit' = "failed"
    /\ UNCHANGED <<config, scope, span, mode, pending, request_body_parts,
                   response_status, response_body_parts, attrs,
                   produced, received, emitted, sent, log, tvars, ovars>>

\* lines 232-233: the tracer raises in the lookup or in one of the two
\* writes; the exception is swallowed and _set_span_attributes returns
CommitRaise ==
    /\ sendPc \in {"lookup", "input", "output"}
    /\ sendPc' = "forward"
    /\ commit' = "failed"
    /\ UNCHANGED <<config, scope, span, mode, pending, request_body_parts,
                   response_status, response_body_parts, attrs,
                   produced, received, emitted, sent, log, tvars, ovars>>

(***************************************************************************)
(* send_wrapper, lines 150-176                                             *)
(***************************************************************************)
\* mutant: the accumulator holds the latest chunk only
AccumulateResponseLatest(parts, message) ==
    IF Get(message, "body", <<>>) # <<>> THEN <<Get(message, "body", <<>>)>>
    ELSE parts

\* lines 159-161
AccumulateResponse(parts, message) ==
    IF Get(message, "body", <<>>) # <<>> THEN Append(parts, Get(message, "body", <<>>))
    ELSE parts

\* mutant: line 166 without the more_body test
TriggersCommitAnyBody(message) == message.type = "http.response.body"

\* lines 165-166: the message makes send_wrapper call _set_span_attributes
TriggersCommit(message) ==
    message.type = "http.response.body" /\ ~Get(message, "more_body", FALSE)

\* mutant: the wrapper forwards a rebuilt message
ForwardedRebuilt(message) == [type |-> message.type, body |-> Get(message, "body", <<>>)]

\* lines 155 and 176: the message send_wrapper passes to the outer send
Forwarded(message) == message

\* mutant: "await send(message)" before the call of _set_span_attributes
SendWrapperForwardFirst(message) ==
    /\ mode = "capture" /\ sendPc = "idle"
    /\ MsgCount < MaxMsgs
    /\ MaySend(message)
    /\ emitted' = Append(emitted, message)
    /\ response_status' = IF message.type = "http.response.start"
                             THEN Get(message, "status", 0) ELSE response_status
    /\ response_body_parts' = IF message.type = "http.response.body"
                                 THEN AccumulateResponse(response_body_parts, message)
                                 ELSE response_body_parts
    /\ sent' = Append(sent, Forwarded(message))
    /\ IF TriggersCommit(message)
          THEN /\ sendPc' = "lookup"
               /\ pending' = message
               /\ commit' = "running"
               /\ log' = log \o <<[ev |-> "send", n |-> Len(sent) + 1], [ev |-> "commit"]>>
          ELSE /\ log' = Append(log, [ev |-> "send", n |-> Len(sent) + 1])
               /\ UNCHANGED <<sendPc, pending, commit>>
    /\ UNCHANGED <<config, scope, span, mode, request_body_parts, attrs,
                   produced, received, tvars, ovars>>

\* mutant: only the first start message is recorded
SendWrapperFirstStatus(message) ==
    /\ mode = "capture" /\ sendPc = "idle"
    /\ MsgCount < MaxMsgs
    /\ MaySend(message)
    /\ emitted' = Append(emitted, message)
    /\ response_status' = IF message.type = "http.response.start" /\ response_status = 0
                             THEN Get(message, "status", 0) ELSE response_status
    /\ response_body_parts' = IF message.type = "http.response.body"
                                 THEN AccumulateResponse(response_body_parts, message)
                                 ELSE response_body_parts
    /\ IF TriggersCommit(message)
          THEN /\ sendPc' = "lookup"
               /\ pending' = message
               /\ commit' = "running"
               /\ log' = Append(log, [ev |-> "commit"])
               /\ sent' = sent
          ELSE /\ sent' = Append(sent, Forwarded(message))
               /\ log' = Append(log, [ev |-> "send", n |-> Len(sent) + 1])
               /\ UNCHANGED <<sendPc, pending, commit>>
    /\ UNCHANGED <<config, scope, span, mode, request_body_parts, attrs,
                   produced, received, tvars, ovars>>

\* the handler calls send_wrapper(message): everything up to the call of
\* _set_span_attributes (final chunk) or to the forward (any other message)
SendWrapper(message) ==
    /\ mode = "capture" /\ sendPc = "idle"
    /\ MsgCount < MaxMsgs
    /\ MaySend(message)
    /\ emitted' = Append(emitted, message)
    /\ response_status' = IF message.type = "http.response.start"
                             THEN Get(message, "status", 0) ELSE response_status
    /\ response_body_parts' = IF message.type = "http.response.body"
                                 THEN AccumulateResponse(response_body_parts, message)
                                 ELSE response_body_parts
    /\ IF TriggersCommit(message)
          THEN /\ sendPc' = "lookup"
               /\ pending' = message
               /\ commit' = "running"
               /\ log' = Append(log, [ev |-> "commit"])
               /\ sent' = sent
          ELSE /\ sent' = Append(sent, Forwarded(message))
               /\ log' = Append(log, [ev |-> "send", n |-> Len(sent) + 1])
               /\ UNCHANGED <<sendPc, pending, commit>>
    /\ UNCHANGED <<config, scope, span, mode, request_body_parts, attrs,
                   produced, received, tvars, ovars>>

\* line 176 for the final chunk, after _set_span_attributes has returned
SendFinal ==
    /\ sendPc = "forward"
    /\ sent' = Append(sent, Forwarded(pending))
    /\ log' = Append(log, [ev |-> "send", n |-> Len(sent) + 1])
    /\ sendPc' = "idle"
    /\ pending' = NoMsg
    /\ UNCHANGED <<config, scope, span, mode, request_body_parts,
                   response_status, response_body_parts, attrs, commit,
                   produced, received, emitted, tvars, ovars>>

(***************************************************************************)
(* One exchange through the middleware                                     *)
(***************************************************************************)
MIdle ==
    /\ span = "unknown"
    /\ mode = "new"
    /\ sendPc = "idle"
    /\ pending = NoMsg
    /\ request_body_parts = <<>>
    /\ response_status = 0
    /\ response_body_parts = <<>>
    /\ attrs = NoAttrs
    /\ commit = "none"
    /\ produced = <<>>
    /\ received = <<>>
    /\ emitted = <<>>
    /\ sent = <<>>
    /\ log = <<>>

TIdle == tbody = <<>> /\ tcap = 0 /\ tres = NoResult

EIdle == ebody = <<>> /\ eres = NoResult

\* no OTEL_CAPTURE_* variable set, no OtelCaptureConfig built
CIdle == environ = [enabled |-> Unset, max_body_size_kb |-> Unset, excluded_paths |-> Unset]
            /\ built = NoResult

\* no concurrent exchange
XIdle == heap = <<>> /\ frames = <<>>

\* instrument_fastapi not called, no instrumented stack
IIdle ==
    /\ deps = [langfuse |-> FALSE, packages |-> FALSE]
    /\ instr = NoResult
    /\ otel = "unopened"

\* no CacheBackedContextStore
KIdle == db = <<>> /\ cache = <<>> /\ procs = <<>>

OIdle == EIdle /\ CIdle /\ XIdle /\ IIdle /\ KIdle

Init ==
    /\ \E x \in Exchanges : config = x[1] /\ scope = x[2]
    /\ MIdle
    /\ TIdle
    /\ OIdle

Next ==
    \/ Middleware
    \/ \E m \in RecvMsgs(scope) : PassReceive(m)
    \/ \E m \in SendMsgs(scope) : PassSend(m)
    \/ \E m \in RecvMsgs(scope) : OuterReceive(m)
    \/ ReceiveWrapper
    \/ \E m \in SendMsgs(scope) : SendWrapper(m)
    \/ CommitLookup
    \/ CommitInput
    \/ CommitOutput
    \/ CommitRaise
    \/ SendFinal

Spec == Init /\ [][Next]_vars

(***************************************************************************)
(* _truncate_body called on its own                                        *)
(***************************************************************************)
TruncateCall ==
    /\ tres = NoResult
    /\ tres' = TruncateBody(tbody, tcap)
    /\ UNCHANGED <<tbody, tcap, mvars, ovars>>

TruncInit ==
    /\ tbody \in Bodies
    /\ tcap \in Caps
    /\ tres = NoResult
    /\ config = [enabled |-> TRUE, max_body_size_kb |-> tcap,
                 excluded_paths |-> DefaultExcludedPaths]
    /\ scope = [type |-> "http"]
    /\ MIdle
    /\ OIdle

TruncNext == TruncateCall

SpecTrunc == TruncInit /\ [][TruncNext]_vars

(***************************************************************************)
(* Inverse conversions, used to read back what _truncate_body returned     *)
(***************************************************************************)
\* str.encode("utf-8") of one code point
EncodeCodePoint(c) ==
    IF c < 128 THEN <<c>>
    ELSE IF c < 2048 THEN <<192 + (c \div 64), 128 + (c % 64)>>
    ELSE IF c < 65536
        THEN <<224 + (c \div 4096), 128 + ((c \div 64) % 64), 128 + (c % 64)>>
    ELSE <<240 + (c \div 262144), 128 + ((c \div 4096) % 64),
           128 + ((c \div 64) % 64), 128 + (c % 64)>>

Utf8Encode(text) == Flatten([i \in 1..Len(text) |-> EncodeCodePoint(text[i])], 1, Len(text))

B64Value(c) ==
    IF c >= 65 /\ c <= 90 THEN c - 65
    ELSE IF c >= 97 /\ c <= 122 THEN c - 97 + 26
    ELSE IF c >= 48 /\ c <= 57 THEN c - 48 + 52
    ELSE IF c = 43 THEN 62
    ELSE IF c = 47 THEN 63
    ELSE -1

\* base64.b64decode(chars): [ok |-> TRUE, bytes |-> ...] or [ok |-> FALSE]
\* when chars is not padded base64 text
B64Decode(chars) ==
    LET n == Len(chars)
        pads == IF n >= 2 /\ chars[n] = 61 /\ chars[n - 1] = 61 THEN 2
                ELSE IF n >= 1 /\ chars[n] = 61 THEN 1 ELSE 0
        Sextet(k) == IF k > n - pads THEN 0 ELSE B64Value(chars[k])
        Val(g) == Sextet(4 * g + 1) * 262144 + Sextet(4 * g + 2) * 4096
                      + Sextet(4 * g + 3) * 64 + Sextet(4 * g + 4)
    IN  IF n % 4 # 0 \/ \E k \in 1..(n - pads) : B64Value(chars[k]) < 0
           THEN [ok |-> FALSE]
           ELSE [ok |-> TRUE,
                 bytes |-> [i \in 1..(3 * (n \div 4) - pads) |->
                              LET g == (i - 1) \div 3
                                  j == (i - 1) % 3
                              IN  (Val(g) \div (IF j = 0 THEN 65536 ELSE IF j = 1 THEN 256 ELSE 1))
                                      % 256]]

\* the bytes a content string stands for under the reported encoding
DecodeContent(content, encoding) ==
    IF encoding = "utf-8" THEN [ok |-> TRUE, bytes |-> Utf8Encode(content)]
    ELSE B64Decode(content)

RECURSIVE DigitsValue(_, _)
DigitsValue(ds, n) == IF ds = <<>> THEN n ELSE DigitsValue(Tail(ds), n * 10 + (Head(ds) - 48))

\* content read as  pre \o "\n\n[... truncated " \o digits \o " bytes ...]":
\* [ok |-> TRUE, pre |-> pre, omitted |-> the number] or [ok |-> FALSE]
SplitMarker(content) ==
    LET n == Len(content)
        h == Len(SuffixHead)
        t == Len(SuffixTail)
        Fits(d) == /\ n >= h + d + t
                   /\ SubSeq(content, n - t + 1, n) = SuffixTail
                   /\ SubSeq(content, n - t - d - h + 1, n - t - d) = SuffixHead
                   /\ \A k \in (n - t - d + 1)..(n - t) : IsDigit(content[k])
        ds == {d \in 1..10 : Fits(d)}
    IN  IF ds = {} THEN [ok |-> FALSE]
        ELSE LET d == CHOOSE x \in ds : TRUE IN
             [ok |-> TRUE,
              pre |-> SubSeq(content, 1, n - t - d - h),
              omitted |-> DigitsValue(SubSeq(content, n - t - d + 1, n - t), 0)]

Called == tres # NoResult

(***************************************************************************)
(* C8  Below the cap: a body of at most max_size_kb * 1024 bytes comes     *)
(* back with truncated = false and size_bytes = its length, and its        *)
(* content, read back under the reported encoding (UTF-8 encoded, or       *)
(* base64 decoded), is the body itself, so nothing was appended to it.     *)
(***************************************************************************)
TruncateRoundTrip ==
    (Called /\ Len(tbody) <= tcap * KiB) =>
        /\ tres.truncated = FALSE
        /\ tres.size_bytes = Len(tbody)
        /\ tres.encoding \in {"utf-8", "base64"}
        /\ DecodeContent(tres.content, tres.encoding) = [ok |-> TRUE, bytes |-> tbody]

\* a body of exactly the cap, not valid UTF-8, has been returned as base64
TruncateRoundTripWitness ==
    /\ Called /\ tcap > 0 /\ Len(tbody) = tcap * KiB
    /\ tres.encoding = "base64" /\ ~tres.truncated

(***************************************************************************)
(* C9  Above the cap: for a cap of 0 or more and a body longer than it,    *)
(* truncated = true, size_bytes = the body's length, the content is some   *)
(* text followed by the marker, the text reads back (under the reported    *)
(* encoding) as exactly the first max_size_kb * 1024 bytes of the body,    *)
(* and the number in the marker is length - max_size_kb * 1024.            *)
(***************************************************************************)
TruncateAboveCap ==
    (Called /\ tcap >= 0 /\ Len(tbody) > tcap * KiB) =>
        /\ tres.truncated = TRUE
        /\ tres.size_bytes = Len(tbody)
        /\ LET m == SplitMarker(tres.content) IN
            /\ m.ok
            /\ m.omitted = Len(tbody) - tcap * KiB
            /\ DecodeContent(m.pre, tres.encoding)
                   = [ok |-> TRUE, bytes |-> SubSeq(tbody, 1, tcap * KiB)]

\* a body longer than a positive cap whose first cap bytes are not UTF-8
\* (the cut falls inside a two-byte character) has been returned
TruncateAboveCapWitness ==
    /\ Called /\ tcap > 0 /\ Len(tbody) > tcap * KiB
    /\ tres.encoding = "base64" /\ tres.truncated
    /\ Utf8Decode(tbody).ok

\* the first min(length, max_size_kb * 1024) bytes of the body
KeptSlice == SubSeq(tbody, 1, Min(Len(tbody), tcap * KiB))

(***************************************************************************)
(* C10  Encoding choice, for every body and every cap: the encoding is     *)
(* base64 exactly when the first min(length, max_size_kb * 1024) bytes of  *)
(* the body are not valid UTF-8, and otherwise utf-8 with the decoded text *)
(* of those bytes as content (before the marker, when there is one).       *)
(***************************************************************************)
EncodingChoice ==
    Called =>
        /\ tres.encoding = (IF Utf8Decode(KeptSlice).ok THEN "utf-8" ELSE "base64")
        /\ tres.encoding = "utf-8" =>
              LET text == Utf8Decode(KeptSlice).text IN
              SubSeq(tres.content, 1, Len(text)) = text

(***************************************************************************)
(* Readings of the event log                                               *)
(***************************************************************************)
IsWrite(e) == e.ev = "set_attribute"
IsFinalForward(e) == e.ev = "send" /\ IsFinalChunk(sent[e.n])
Writes == {i \in 1..Len(log) : IsWrite(log[i])}
FinalForwards == {i \in 1..Len(log) : IsFinalForward(log[i])}
CommitCalls == {i \in 1..Len(log) : log[i].ev = "commit"}
Written(name) == \E i \in Writes : log[i].name = name

Committing == sendPc \in {"lookup", "input", "output"}

(***************************************************************************)
(* C1  Commit before forward: every attribute write of an exchange comes   *)
(* before the forward of its final body chunk, none after it; and when the *)
(* span is recording and the tracer did not raise, both input.value and    *)
(* output.value have been written by the time the final chunk is forwarded.*)
(***************************************************************************)
CommitBeforeForward ==
    /\ \A w \in Writes : \A f \in FinalForwards : w < f
    /\ (mode = "capture" /\ FinalIn(sent) /\ span = "recording" /\ commit # "failed") =>
           /\ Written("input.value") /\ Written("output.value")
           /\ {"input.value", "output.value"} \subseteq DOMAIN attrs

\* both attributes written, then the final chunk forwarded
CommitBeforeForwardWitness ==
    /\ mode = "capture" /\ commit = "ok" /\ sendPc = "idle"
    /\ FinalIn(sent) /\ Cardinality(Writes) = 2

(***************************************************************************)
(* C2  Response transparency: in every exchange the messages handed to the *)
(* outer send are the messages the handler emitted, unchanged, in order,   *)
(* once each; while send_wrapper is inside the commit the one message not  *)
(* yet handed over is the final chunk it holds.                            *)
(***************************************************************************)
ResponseTransparency ==
    IF sendPc = "idle" THEN sent = emitted
    ELSE /\ Len(emitted) = Len(sent) + 1
         /\ sent = SubSeq(emitted, 1, Len(sent))
         /\ pending = emitted[Len(emitted)]

\* a captured exchange whose commit failed has forwarded start, a chunk and
\* the final chunk
ResponseTransparencyWitness ==
    /\ mode = "capture" /\ commit = "failed" /\ sendPc = "idle"
    /\ Len(sent) = 3 /\ FinalIn(sent)
    /\ sent[1].type = "http.response.start"

(***************************************************************************)
(* C3  Request observation only: in a captured exchange the handler gets   *)
(* the messages of the outer receive, unchanged and in order, and the      *)
(* request accumulator holds exactly the non-empty bodies of the           *)
(* http.request messages the handler got, in that order.                   *)
(***************************************************************************)
CarriesBody(m) == m.type = "http.request" /\ "body" \in DOMAIN m /\ m.body # <<>>

BodiesOf(msgs) ==
    LET kept == SelectSeq(msgs, CarriesBody) IN [i \in 1..Len(kept) |-> kept[i].body]

RequestObservationOnly ==
    mode = "capture" =>
        /\ Len(received) <= Len(produced)
        /\ received = SubSeq(produced, 1, Len(received))
        /\ request_body_parts = BodiesOf(received)

\* three messages got: one with a body, one without, one of another type
RequestObservationOnlyWitness ==
    /\ mode = "capture" /\ Len(received) = 3
    /\ Len(request_body_parts) = 1
    /\ \E i \in 1..3 : received[i].type = "http.disconnect"
    /\ \E i \in 1..3 : received[i].type = "http.request" /\ received[i].body = <<>>

(***************************************************************************)
(* C4  Early exit: when capture is disabled, or the scope is not http, or  *)
(* the path starts with an excluded prefix, the handler runs on the outer  *)
(* receive and send themselves: nothing is accumulated, no commit runs and *)
(* no attribute is written, whatever the handler sends.                    *)
(***************************************************************************)
ExcludedPath ==
    \E i \in 1..Len(config.excluded_paths) :
        LET e == config.excluded_paths[i]
            p == IF "path" \in DOMAIN scope THEN scope.path ELSE <<47>>
        IN  Len(e) <= Len(p) /\ \A k \in 1..Len(e) : p[k] = e[k]

MustPassThrough == ~config.enabled \/ scope.type # "http" \/ ExcludedPath

EarlyExit ==
    (MustPassThrough /\ mode # "new") =>
        /\ mode = "passthrough"
        /\ request_body_parts = <<>> /\ response_body_parts = <<>> /\ response_status = 0
        /\ attrs = NoAttrs /\ Writes = {} /\ CommitCalls = {}
        /\ received = produced /\ sent = emitted

\* GET /healthz answered 404 with a final body chunk
EarlyExitWitness ==
    /\ config.enabled /\ scope.type = "http" /\ ExcludedPath
    /\ mode = "passthrough"
    /\ FinalIn(sent)
    /\ \E i \in 1..Len(sent) : sent[i] = [type |-> "http.response.start", status |-> 404]

(***************************************************************************)
(* C5  Tracer unavailable: when the span lookup of the commit finds no     *)
(* span, or a span that is not recording, no attribute is written, and the *)
(* messages forwarded are the ones the handler emitted.                    *)
(***************************************************************************)
TracerUnavailable ==
    span \in {"none", "not_recording"} =>
        /\ attrs = NoAttrs /\ Writes = {}
        /\ sent = (IF sendPc = "idle" THEN emitted ELSE SubSeq(emitted, 1, Len(emitted) - 1))

\* a span that is not recording, the response forwarded in full
TracerUnavailableWitness ==
    /\ span = "not_recording" /\ sendPc = "idle" /\ FinalIn(sent)
    /\ response_body_parts # <<>>

(***************************************************************************)
(* C7  Commit once, on the final chunk only: _set_span_attributes has been *)
(* called once when the handler has sent its final body chunk and never    *)
(* before; start messages and chunks with more_body true do not call it,   *)
(* and as long as no final chunk was sent no attribute is written.         *)
(***************************************************************************)
CommitOnceOnFinal ==
    mode = "capture" =>
        /\ Cardinality(CommitCalls) = (IF FinalIn(emitted) THEN 1 ELSE 0)
        /\ ~FinalIn(emitted) => (attrs = NoAttrs /\ commit = "none" /\ sendPc = "idle")
        /\ FinalIn(emitted) => commit # "none"

\* start, a chunk with more_body true, the final chunk: one commit, done
CommitOnceOnFinalWitness ==
    /\ mode = "capture" /\ commit = "ok" /\ sendPc = "idle"
    /\ Len(emitted) = 3
    /\ emitted[1].type = "http.response.start"
    /\ emitted[2].type = "http.response.body" /\ Get(emitted[2], "more_body", FALSE)
    /\ IsFinalChunk(emitted[3])
    /\ Cardinality(CommitCalls) = 1

(***************************************************************************)
(* Fairness for the commit.  From the call of _set_span_attributes (line   *)
(* 166) to "await send(message)" (line 176) send_wrapper does not suspend: *)
(* _set_span_attributes is a plain function.  CommitRaise \/ SendFinal is  *)
(* enabled exactly in that section, so weak fairness on it says that the   *)
(* section does not stall half-way; it does not make the tracer raise, and *)
(* it says nothing about the handler or the server.                        *)
(***************************************************************************)
SpecFair == Spec /\ WF_vars(CommitRaise \/ SendFinal)

Done == sendPc = "idle" /\ FinalIn(sent) /\ sent = emitted

\* C6  Whenever _set_span_attributes is running (looking up the span or
\* writing either attribute), whether it then succeeds, is skipped or raises,
\* send_wrapper goes on to forward the final chunk: the exchange reaches the
\* state in which every emitted message, the final chunk included, has been
\* handed to the outer send.
CommitReachesDone == Committing ~> Done

\* the tracer raised between the two writes and the final chunk went out
CommitReachesDoneWitness ==
    /\ commit = "failed" /\ Done
    /\ "input.value" \in DOMAIN attrs /\ "output.value" \notin DOMAIN attrs

(***************************************************************************)
(* A captured body read back: text stands for raw under the cap max_bytes  *)
(* when it decodes (as UTF-8 text or as base64) to raw, for a raw within   *)
(* the cap, or to the first max_bytes bytes of raw, followed by the marker *)
(* with the number of bytes left out, for a longer one.                    *)
(***************************************************************************)
Reflects(text, raw, max_bytes) ==
    IF Len(raw) <= max_bytes
       THEN \E enc \in {"utf-8", "base64"} :
                DecodeContent(text, enc) = [ok |-> TRUE, bytes |-> raw]
       ELSE LET m == SplitMarker(text) IN
            /\ m.ok /\ m.omitted = Len(raw) - max_bytes
            /\ \E enc \in {"utf-8", "base64"} :
                   DecodeContent(m.pre, enc) = [ok |-> TRUE, bytes |-> SubSeq(raw, 1, max_bytes)]

\* input.value, once parsed, holds exactly these request chunks
InputHolds(value, chunks) ==
    LET inp == JsonLoads(value) IN
    /\ inp.ok /\ inp.val.t = "obj"
    /\ HasKey(inp.val.v, K_body) <=> chunks # <<>>
    /\ chunks # <<>> =>
          /\ DictGet(inp.val.v, K_body).t = "str"
          /\ Reflects(DictGet(inp.val.v, K_body).v, Join(chunks),
                      config.max_body_size_kb * KiB)
          /\ HasKey(inp.val.v, K_body_size)
          /\ DictGet(inp.val.v, K_body_size) = JInt(Len(Join(chunks)))

(***************************************************************************)
(* C18  Partial request capture: receive_wrapper and send_wrapper          *)
(* interleave freely.  The step that writes input.value writes the         *)
(* concatenation of the request chunks the handler has received up to that *)
(* step; a request message received afterwards changes no attribute and    *)
(* writes none, and input.value keeps the value it was written with.       *)
(***************************************************************************)
PartialRequestCapture ==
    [][/\ ("input.value" \notin DOMAIN attrs /\ "input.value" \in DOMAIN attrs') =>
              /\ received' = received
              /\ InputHolds(attrs'["input.value"], BodiesOf(received))
       /\ "input.value" \in DOMAIN attrs =>
              /\ "input.value" \in DOMAIN attrs'
              /\ attrs'["input.value"] = attrs["input.value"]
       /\ received' # received => (attrs' = attrs /\ Writes' = Writes)]_vars

\* the commit ran with one request chunk received; a second one came later
\* and is in the accumulator, not in input.value
PartialRequestCaptureWitness ==
    /\ mode = "capture" /\ commit = "ok" /\ sendPc = "idle"
    /\ Len(request_body_parts) = 2
    /\ InputHolds(attrs["input.value"], <<request_body_parts[1]>>)

(***************************************************************************)
(* _set_span_attributes called on its own: the state at the call of line   *)
(* 167, with the six arguments drawn from the sets below.  The lists hold  *)
(* non-empty chunks only, as receive_wrapper and send_wrapper build them.  *)
(***************************************************************************)
\* values of the "detail" member of an error body
ErrDetailValues ==
    {JStr(<<88>>), JStr(<<233>>), JStr(<<>>), JInt(7), JBool(TRUE), JNull,
     JArr(<<JStr(<<97>>), JInt(1)>>), JObj(<< <<K_code, JInt(7)>> >>)}

\* b'{"detail":' + json.dumps(X).encode() + b'}'
DetailBody(X) ==
    <<123, 34, 100, 101, 116, 97, 105, 108, 34, 58>> \o JsonDumps(X) \o <<125>>

\* b'{"detail":"\xc3\xa9"}': the character U+00E9 itself, not its escape
DetailRawE == <<123, 34, 100, 101, 116, 97, 105, 108, 34, 58, 34, 195, 169, 34, 125>>

\* <<body, X>>: body is the JSON object {"detail": X}, written compactly,
\* as json.dumps writes it, or with a raw UTF-8 character
DetailCases ==
    {<<DetailBody(X), X>> : X \in ErrDetailValues}
        \cup {<<JsonDumps(JObj(<< <<K_detail, X>> >>)), X>> : X \in {JStr(<<88>>), JNull}}
        \cup {<<DetailRawE, JStr(<<233>>)>>}

\* bodies json.loads rejects, or that are not UTF-8: plain text, bytes that
\* do not decode, a bare word as value, an unclosed object, single quotes,
\* text after the document, bytes around it, whitespace only, plain text
\* longer than 1 KB
NonJsonBodies ==
    {<<73, 110, 116, 101, 114, 110, 97, 108, 32, 83, 101, 114, 118, 101, 114, 32,
       69, 114, 114, 111, 114>>,
     <<255, 254>>,
     <<123, 34, 105, 110, 118, 97, 108, 105, 100, 34, 58, 32, 106, 115, 111, 110, 125>>,
     <<123, 34, 100, 101, 116, 97, 105, 108, 34, 58, 34, 88, 34>>,
     <<123, 39, 100, 101, 116, 97, 105, 108, 39, 58, 32, 39, 88, 39, 125>>,
     DetailX \o <<120>>,
     DetailX \o <<255>>,
     <<255, 254>> \o DetailX,
     <<32>>,
     Pad(KiB) \o <<33>>}

\* JSON documents without a "detail" member: {"message":"hi"}, ["detail"],
\* "detail", 5, null
OtherJsonBodies ==
    {<<123, 34, 109, 101, 115, 115, 97, 103, 101, 34, 58, 34, 104, 105, 34, 125>>,
     <<91, 34, 100, 101, 116, 97, 105, 108, 34, 93>>,
     <<34, 100, 101, 116, 97, 105, 108, 34>>,
     <<53>>,
     <<110, 117, 108, 108>>}

\* b'{"detail":1,"message":2}'
DetailAndMessage ==
    <<123, 34, 100, 101, 116, 97, 105, 108, 34, 58, 49, 44,
      34, 109, 101, 115, 115, 97, 103, 101, 34, 58, 50, 125>>

ResponseBodies ==
    {c[1] : c \in DetailCases} \cup NonJsonBodies \cup OtherJsonBodies \cup {DetailAndMessage}

\* the body in one chunk, or cut in two after its third byte; or no chunk
ResponsePartLists ==
    {<<>>} \cup {<<b>> : b \in ResponseBodies}
        \cup {<<SubSeq(b, 1, 3), SubSeq(b, 4, Len(b))>> : b \in {DetailX, <<255, 254>> \o DetailX}}

RequestPartLists == {<<>>, <<DetailX>>, << <<255>>, DetailX >>}

CommitStatuses == {0, 200, 399, 400, 404, 599}

CommitInit ==
    /\ config \in {EnabledConfig(0), EnabledConfig(1)}
    /\ scope \in {PostEcho, [type |-> "http"]}
    /\ request_body_parts \in RequestPartLists
    /\ response_status \in CommitStatuses
    /\ response_body_parts \in ResponsePartLists
    /\ span = "unknown"
    /\ mode = "capture"
    /\ sendPc = "lookup"
    /\ pending = NoMsg
    /\ attrs = NoAttrs
    /\ commit = "running"
    /\ produced = <<>> /\ received = <<>> /\ emitted = <<>> /\ sent = <<>>
    /\ log = <<[ev |-> "commit"]>>
    /\ TIdle
    /\ OIdle

CommitNext == CommitLookup \/ CommitInput \/ CommitOutput \/ CommitRaise

SpecCommit == CommitInit /\ [][CommitNext]_vars

\* the response bytes _set_span_attributes was given
RespBody == Join(response_body_parts)

\* json.loads of a written attribute
AttrValue(name) == JsonLoads(attrs[name])

OutputWritten == commit = "ok" /\ "output.value" \in DOMAIN attrs

FailedStatus == response_status >= 400 /\ response_status <= 599

(***************************************************************************)
(* C11  Error detail on failed responses: when output.value has been       *)
(* written for a response with status in 400..599 whose body is the JSON   *)
(* object {"detail": X}, output.value is a JSON object whose "status" is   *)
(* the response status and whose "error" is X.                             *)
(***************************************************************************)
ErrorDetailOnFailure ==
    \A c \in DetailCases :
        (OutputWritten /\ FailedStatus /\ RespBody = c[1]) =>
            LET out == AttrValue("output.value") IN
            /\ out.ok /\ out.val.t = "obj"
            /\ HasKey(out.val.v, K_status) /\ DictGet(out.val.v, K_status) = JInt(response_status)
            /\ HasKey(out.val.v, K_error) /\ DictGet(out.val.v, K_error) = c[2]

\* status 599, the body {"detail": {"code": 7}} cut off at cap 0, the
\* nested value written as error
ErrorDetailOnFailureWitness ==
    /\ OutputWritten /\ response_status = 599 /\ config.max_body_size_kb = 0
    /\ RespBody = DetailBody(JObj(<< <<K_code, JInt(7)>> >>))
    /\ HasKey(AttrValue("output.value").val.v, K_error)

(***************************************************************************)
(* C12  Non-JSON error body: when the commit has completed for a response  *)
(* with status in 400..599 whose body json.loads rejects, or that is not   *)
(* UTF-8, output.value is written, has no "error" key, its "body_size" is  *)
(* the length of the body, and its "body" reads back as the body: as the   *)
(* whole body (UTF-8 text or base64) when the body is within the cap, as   *)
(* its first max_body_size_kb * 1024 bytes followed by the marker when it  *)
(* is longer.                                                              *)
(***************************************************************************)
NonJsonErrorBody ==
    (commit = "ok" /\ FailedStatus /\ RespBody \in NonJsonBodies) =>
        /\ "output.value" \in DOMAIN attrs
        /\ LET out == AttrValue("output.value")
               max_bytes == config.max_body_size_kb * KiB
           IN
            /\ out.ok /\ out.val.t = "obj"
            /\ ~HasKey(out.val.v, K_error)
            /\ HasKey(out.val.v, K_body_size)
            /\ DictGet(out.val.v, K_body_size) = JInt(Len(RespBody))
            /\ HasKey(out.val.v, K_body) /\ DictGet(out.val.v, K_body).t = "str"
            /\ LET body == DictGet(out.val.v, K_body).v IN
               IF Len(RespBody) <= max_bytes
                  THEN \E enc \in {"utf-8", "base64"} :
                           DecodeContent(body, enc) = [ok |-> TRUE, bytes |-> RespBody]
                  ELSE LET m == SplitMarker(body) IN
                       /\ m.ok /\ m.omitted = Len(RespBody) - max_bytes
                       /\ \E enc \in {"utf-8", "base64"} :
                            DecodeContent(m.pre, enc)
                                = [ok |-> TRUE, bytes |-> SubSeq(RespBody, 1, max_bytes)]

\* status 400 and 1025 bytes of plain text under the 1 KB cap: the body
\* written is the first 1024 bytes and the marker
NonJsonErrorBodyWitness ==
    /\ commit = "ok" /\ response_status = 400
    /\ RespBody = Pad(KiB) \o <<33>>
    /\ config.max_body_size_kb = 1
    /\ "output.value" \in DOMAIN attrs

(***************************************************************************)
(* C13 as stated: for status >= 400 the "error" of output.value is the     *)
(* result of _capture_error_details on the response bytes whenever that    *)
(* result is not empty: str(detail), else str(message), else the raw       *)
(* fallback.                                                               *)
(***************************************************************************)
ErrorFromExtractor ==
    (OutputWritten /\ response_status >= 400) =>
        LET r == CaptureErrorDetails(RespBody)
            out == AttrValue("output.value")
        IN  (r.raised = "" /\ r.calls # <<>> /\ r.calls[1][2] # <<>>) =>
                /\ HasKey(out.val.v, K_error)
                /\ DictGet(out.val.v, K_error) = JStr(r.calls[1][2])

\* <<body, X>>: the bodies that are a JSON object with a "detail" member X
WithDetail == DetailCases \cup {<<DetailAndMessage, JInt(1)>>}

(***************************************************************************)
(* C13 amended: the commit step does not call _capture_error_details.      *)
(* output.value has an "error" exactly when the status is 400 or more and  *)
(* the response body is UTF-8 JSON text of an object with a "detail"       *)
(* member, and "error" is then that member's value itself, not its str().  *)
(* An object with "message" and no "detail", a document that is not an     *)
(* object and a body that does not parse give no "error".                  *)
(***************************************************************************)
ErrorFromDetailOnly ==
    OutputWritten =>
        LET out == AttrValue("output.value") IN
        /\ out.ok /\ out.val.t = "obj"
        /\ IF response_status >= 400 /\ \E c \in WithDetail : RespBody = c[1]
              THEN \A c \in WithDetail :
                       RespBody = c[1] =>
                           /\ HasKey(out.val.v, K_error)
                           /\ DictGet(out.val.v, K_error) = c[2]
              ELSE ~HasKey(out.val.v, K_error)

\* 404 with the body {"message":"hi"}: output.value written without "error"
ErrorFromDetailOnlyWitness ==
    /\ OutputWritten /\ response_status = 404
    /\ RespBody = <<123, 34, 109, 101, 115, 115, 97, 103, 101, 34, 58, 34, 104, 105, 34, 125>>
    /\ ~HasKey(AttrValue("output.value").val.v, K_error)

\* the keys of a parsed JSON object
Keys(obj) == {obj.v[i][1] : i \in 1..Len(obj.v)}

\* some chunk of the list is not empty
SomeBytes(parts) == \E i \in 1..Len(parts) : parts[i] # <<>>

(***************************************************************************)
(* C16  Wire-contract shape: a written input.value is a JSON object with   *)
(* the keys method and path and possibly body and body_size, and no other; *)
(* a written output.value is a JSON object with the key status and         *)
(* possibly body, body_size, truncated and error, and no other.  In each,  *)
(* body and body_size come together, and are there exactly when a          *)
(* non-empty chunk was captured in that direction.  output.value has       *)
(* truncated, with the value true, exactly when the response body is       *)
(* longer than the cap; input.value never has it, also when the request    *)
(* body is longer than the cap.                                            *)
(***************************************************************************)
WireShape ==
    /\ "input.value" \in DOMAIN attrs =>
          LET inp == AttrValue("input.value") IN
          /\ inp.ok /\ inp.val.t = "obj"
          /\ {K_method, K_path} \subseteq Keys(inp.val)
          /\ Keys(inp.val) \subseteq {K_method, K_path, K_body, K_body_size}
          /\ K_body \in Keys(inp.val) <=> K_body_size \in Keys(inp.val)
          /\ K_body \in Keys(inp.val) <=> SomeBytes(request_body_parts)
    /\ "output.value" \in DOMAIN attrs =>
          LET out == AttrValue("output.value") IN
          /\ out.ok /\ out.val.t = "obj"
          /\ K_status \in Keys(out.val)
          /\ Keys(out.val) \subseteq {K_status, K_body, K_body_size, K_truncated, K_error}
          /\ K_body \in Keys(out.val) <=> K_body_size \in Keys(out.val)
          /\ K_body \in Keys(out.val) <=> SomeBytes(response_body_parts)
          /\ K_truncated \in Keys(out.val)
                 <=> Len(RespBody) > config.max_body_size_kb * KiB
          /\ K_truncated \in Keys(out.val) => DictGet(out.val.v, K_truncated) = JBool(TRUE)

\* cap 0, request and response both longer than it: input.value has body
\* and body_size only, output.value has all five keys
WireShapeWitness ==
    /\ OutputWritten /\ "input.value" \in DOMAIN attrs
    /\ config.max_body_size_kb = 0
    /\ request_body_parts # <<>>
    /\ Keys(AttrValue("input.value").val) = {K_method, K_path, K_body, K_body_size}
    /\ Keys(AttrValue("output.value").val)
           = {K_status, K_body, K_body_size, K_truncated, K_error}

(***************************************************************************)
(* _capture_error_details called on its own.  Each case is a body with     *)
(* what Python's str() and bytes.decode(errors="replace") give for it,     *)
(* written out: kind is the attribute the body calls for ("detail",        *)
(* "message", "raw"), "none" for an object with neither key, "other" for a *)
(* JSON document that is not an object.                                    *)
(***************************************************************************)
\* <<value, str(value)>>: 'X', 'e-acute', '', 7, True, None, ['a', 1],
\* {'code': 7}, ["it's"], ['e-acute']
StrTable ==
    {<<JStr(<<88>>), <<88>>>>,
     <<JStr(<<233>>), <<233>>>>,
     <<JStr(<<>>), <<>>>>,
     <<JInt(7), <<55>>>>,
     <<JBool(TRUE), <<84, 114, 117, 101>>>>,
     <<JNull, <<78, 111, 110, 101>>>>,
     <<JArr(<<JStr(<<97>>), JInt(1)>>), <<91, 39, 97, 39, 44, 32, 49, 93>>>>,
     <<JObj(<< <<K_code, JInt(7)>> >>), <<123, 39, 99, 111, 100, 101, 39, 58, 32, 55, 125>>>>,
     <<JArr(<<JStr(<<105, 116, 39, 115>>)>>), <<91, 34, 105, 116, 39, 115, 34, 93>>>>,
     <<JArr(<<JStr(<<233>>)>>), <<91, 39, 233, 39, 93>>>>}

\* json.dumps({...}).encode("utf-8")
ObjBody(pairs) == JsonDumps(JObj(pairs))

ExtractCase(body, kind, text) == [body |-> body, kind |-> kind, text |-> text]

ObjectCases ==
    UNION {{ExtractCase(ObjBody(<< <<K_detail, c[1]>> >>), "detail", c[2]),
            ExtractCase(ObjBody(<< <<K_message, c[1]>> >>), "message", c[2]),
            ExtractCase(ObjBody(<< <<K_detail, c[1]>>, <<K_message, JStr(<<109>>)>> >>),
                        "detail", c[2]),
            ExtractCase(ObjBody(<< <<K_message, JStr(<<109>>)>>, <<K_detail, c[1]>> >>),
                        "detail", c[2]),
            ExtractCase(ObjBody(<< <<K_code, c[1]>> >>), "none", <<>>)} : c \in StrTable}
        \cup {ExtractCase(<<123, 125>>, "none", <<>>)}

\* b"\xff\xfe\xfd" * 100
Binary300 == [i \in 1..300 |-> 255 - ((i - 1) % 3)]

\* bodies that do not decode or do not parse, with the first 200 bytes
\* decoded with replacement
RawCases ==
    {ExtractCase(<<73, 110, 116, 101, 114, 110, 97, 108, 32, 83, 101, 114, 118, 101, 114, 32,
                   69, 114, 114, 111, 114>>, "raw",
                 <<73, 110, 116, 101, 114, 110, 97, 108, 32, 83, 101, 114, 118, 101, 114, 32,
                   69, 114, 114, 111, 114>>),
     ExtractCase(<<255, 254>>, "raw", <<65533, 65533>>),
     ExtractCase(<<123, 34, 105, 110, 118, 97, 108, 105, 100, 34, 58, 32, 106, 115, 111, 110, 125>>,
                 "raw",
                 <<123, 34, 105, 110, 118, 97, 108, 105, 100, 34, 58, 32, 106, 115, 111, 110, 125>>),
     ExtractCase(DetailX \o <<120>>, "raw", DetailX \o <<120>>),
     ExtractCase(DetailX \o <<255>>, "raw", DetailX \o <<65533>>),
     ExtractCase(<<32>>, "raw", <<32>>),
     ExtractCase(<<>>, "raw", <<>>),
     ExtractCase(<<226, 130, 40>>, "raw", <<65533, 40>>),
     ExtractCase(<<40, 226, 130>>, "raw", <<40, 65533>>),
     ExtractCase(Pad(500), "raw", Pad(200)),
     ExtractCase(Pad(199) \o <<195, 169>>, "raw", Pad(199) \o <<65533>>),
     ExtractCase(Pad(198) \o <<195, 169, 120>>, "raw", Pad(198) \o <<233>>),
     ExtractCase(Binary300, "raw", [i \in 1..200 |-> 65533])}

\* JSON documents that are not objects: 5, null, true, "detail", "a detail",
\* "abc", ["detail"], ["message"], []
OtherCases ==
    {ExtractCase(b, "other", <<>>) :
        b \in {<<53>>, <<110, 117, 108, 108>>, <<116, 114, 117, 101>>,
               <<34, 100, 101, 116, 97, 105, 108, 34>>,
               <<34, 97, 32, 100, 101, 116, 97, 105, 108, 34>>,
               <<34, 97, 98, 99, 34>>,
               <<91, 34, 100, 101, 116, 97, 105, 108, 34, 93>>,
               <<91, 34, 109, 101, 115, 115, 97, 103, 101, 34, 93>>,
               <<91, 93>>}}

ExtractCases == ObjectCases \cup RawCases \cup OtherCases

CaptureErrorCall ==
    /\ eres = NoResult
    /\ eres' = CaptureErrorDetails(ebody)
    /\ UNCHANGED <<ebody, mvars, tvars, cvars, xvars, ivars, kvars>>

ExtractInit ==
    /\ ebody \in {c.body : c \in ExtractCases}
    /\ eres = NoResult
    /\ config = EnabledConfig(1)
    /\ scope = [type |-> "http"]
    /\ MIdle
    /\ TIdle
    /\ CIdle
    /\ XIdle
    /\ IIdle
    /\ KIdle

ExtractNext == CaptureErrorCall

SpecExtract == ExtractInit /\ [][ExtractNext]_vars

ExtractCalled == eres # NoResult

(***************************************************************************)
(* C14  The extractor never raises: for every body, invalid UTF-8, text    *)
(* that is not JSON, a JSON object with or without detail or message, a    *)
(* JSON number, null, boolean, string or array, a call of                  *)
(* _capture_error_details returns without an exception.                    *)
(***************************************************************************)
ExtractorNeverRaises == ExtractCalled => eres.raised = ""

(***************************************************************************)
(* C15  Result selection: a call sets at most one attribute.  For a JSON   *)
(* object it is str(detail) when the object has "detail" (with or without  *)
(* "message"), else str(message) when it has "message", else nothing.  For *)
(* a body that does not decode or does not parse it is the first 200 bytes *)
(* decoded with invalid sequences replaced, at most 200 characters.        *)
(***************************************************************************)
ResultSelection ==
    \A c \in ExtractCases :
        (ExtractCalled /\ ebody = c.body) =>
            /\ Len(eres.calls) <= 1
            /\ c.kind = "detail" =>
                   eres.calls = << <<"http.response.error.detail", c.text>> >>
            /\ c.kind = "message" =>
                   eres.calls = << <<"http.response.error.message", c.text>> >>
            /\ c.kind = "none" => eres.calls = <<>>
            /\ c.kind = "raw" =>
                   /\ eres.calls = << <<"http.response.error.raw", c.text>> >>
                   /\ Len(eres.calls[1][2]) <= 200

\* b"\xff\xfe\xfd" * 100 has come back as 200 replacement characters
ResultSelectionWitness ==
    /\ ExtractCalled /\ ebody = Binary300
    /\ eres.calls # <<>> /\ Len(eres.calls[1][2]) = 200

(***************************************************************************)
(* OtelCaptureConfig() on its own: the environment is drawn from the       *)
(* values below and the constructor runs once.                             *)
(***************************************************************************)
\* "1", "true", "TRUE", "True", "tRuE", "yes", "YES", "Yes"
TrueVariants ==
    {<<49>>,
     <<116, 114, 117, 101>>,
     <<84, 82, 85, 69>>,
     <<84, 114, 117, 101>>,
     <<116, 82, 117, 69>>,
     <<121, 101, 115>>,
     <<89, 69, 83>>,
     <<89, 101, 115>>}

\* "false", "FALSE", "0", "no", "NO", "other", "", "on", "t", "y", "truee", "tru e", "yes1", "2", "11", "enabled"
FalseVariants ==
    {<<102, 97, 108, 115, 101>>,
     <<70, 65, 76, 83, 69>>,
     <<48>>,
     <<110, 111>>,
     <<78, 79>>,
     <<111, 116, 104, 101, 114>>,
     <<>>,
     <<111, 110>>,
     <<116>>,
     <<121>>,
     <<116, 114, 117, 101, 101>>,
     <<116, 114, 117, 32, 101>>,
     <<121, 101, 115, 49>>,
     <<50>>,
     <<49, 49>>,
     <<101, 110, 97, 98, 108, 101, 100>>}

\* what surrounds the word: nothing, " ", "\t\n", a no-break space, and a
\* zero-width space (which str.strip keeps)
Margins == {<<>>, <<32>>, <<9, 10>>, <<160>>, <<8203>>}

EnabledTexts ==
    {lead \o word \o trail :
        lead \in Margins, word \in TrueVariants \cup FalseVariants, trail \in Margins}

\* unset, "50", " 7 ", "abc"
MaxBodySizeTexts ==
    {Unset, SetTo(<<53, 48>>), SetTo(<<32, 55, 32>>), SetTo(<<97, 98, 99>>)}

\* unset, " /api/v1 , /metrics , /status "
ExcludePathsTexts ==
    {Unset,
     SetTo(<<32, 47, 97, 112, 105, 47, 118, 49, 32, 44, 32, 47, 109, 101, 116, 114, 105, 99, 115, 32, 44, 32, 47, 115, 116, 97, 116, 117, 115, 32>>)}

ConfigInit ==
    /\ environ \in [enabled : {Unset} \cup {SetTo(text) : text \in EnabledTexts},
                    max_body_size_kb : MaxBodySizeTexts,
                    excluded_paths : ExcludePathsTexts]
    /\ built = NoResult
    /\ config = EnabledConfig(1)
    /\ scope = [type |-> "http"]
    /\ MIdle
    /\ TIdle
    /\ EIdle
    /\ XIdle
    /\ IIdle
    /\ KIdle

\* config = OtelCaptureConfig()
ConfigCall ==
    /\ built = NoResult
    /\ built' = OtelCaptureConfig(environ)
    /\ UNCHANGED <<environ, mvars, tvars, evars, xvars, ivars, kvars>>

ConfigNext == ConfigCall

SpecConfig == ConfigInit /\ [][ConfigNext]_vars

\* the constructor has returned an object
ConfigBuilt == built # NoResult /\ built.raised = ""

\* two characters that are the same letter in either case
SameLetter(x, y) ==
    \/ x = y
    \/ x >= 65 /\ x <= 90 /\ y = x + 32
    \/ y >= 65 /\ y <= 90 /\ x = y + 32

\* what is left of the text between its surrounding whitespace is the word,
\* in any case
TrimmedIs(text, word) ==
    \E i \in 1..(Len(text) + 1) :
        LET j == i + Len(word) - 1 IN
        /\ j <= Len(text)
        /\ \A k \in 1..Len(word) : SameLetter(text[i + k - 1], word[k])
        /\ \A k \in 1..Len(text) : (k < i \/ k > j) => IsSpace(text[k])

(***************************************************************************)
(* C20  Boolean config parsing: enabled is true exactly when               *)
(* OTEL_CAPTURE_ENABLED is unset, or its value between the surrounding     *)
(* whitespace is "1", "true" or "yes" in any case; every other value gives *)
(* false.                                                                  *)
(***************************************************************************)
BooleanConfigParsing ==
    ConfigBuilt =>
        (built.config.enabled <=>
            \/ ~environ.enabled.set
            \/ \E word \in TruthyWords : TrimmedIs(environ.enabled.value, word))

\* "\t\nYES\xa0" has given enabled = true
BooleanConfigParsingWitness ==
    /\ ConfigBuilt
    /\ environ.enabled = SetTo(<<9, 10, 89, 69, 83, 160>>)
    /\ built.config.enabled

(***************************************************************************)
(* Concurrent exchanges through one handler.  _build_otel_capture_app runs *)
(* once; every exchange is one call of the middleware it returned, with    *)
(* its own scope, path, response_status cell and the two lists it creates  *)
(* in lines 136 and 148.  The calls are coroutines of one event loop: they *)
(* interleave at their awaits, and send_wrapper runs from its entry to the *)
(* forward, the commit included, without a switch.  get_current_span() is  *)
(* taken to return the span of the calling exchange, which is recording.   *)
(***************************************************************************)
MaxPairChunks == 2    \* response body messages of one of the concurrent exchanges

Slots == {1, 2}

\* mutant: the list created once, by _build_otel_capture_app, and shared by
\* the calls of middleware
NewListShared(h) ==
    IF h = <<>> THEN [ref |-> 1, heap |-> <<(<<>>)>>] ELSE [ref |-> 1, heap |-> h]

\* "[]" in lines 136 and 148: a new list object
NewList(h) == [ref |-> Len(h) + 1, heap |-> Append(h, <<>>)]

NewFrame ==
    [pc |-> "new", scope |-> [type |-> "http"], path |-> <<>>,
     request_body_parts |-> 0, response_status |-> 0, response_body_parts |-> 0,
     attrs |-> NoAttrs, got |-> <<>>, put |-> <<>>]

GetItems ==
    [type |-> "http", method |-> <<71, 69, 84>>, path |-> <<47, 105, 116, 101, 109, 115>>]

\* exchange 1 is POST /echo; exchange 2 is POST /echo, GET /items or the
\* excluded GET /healthz
PairScopes(e) == IF e = 1 THEN {PostEcho} ELSE {PostEcho, GetItems, GetHealthz}

\* b'{"detail":"Y"}'
DetailY == <<123, 34, 100, 101, 116, 97, 105, 108, 34, 58, 34, 89, 34, 125>>

\* the request of exchange 1 carries X; that of exchange 2, X or Y
PairRecvMsgs(e) ==
    {[type |-> "http.request", body |-> DetailX, more_body |-> FALSE]}
        \cup IF e = 1 THEN {}
             ELSE {[type |-> "http.request", body |-> DetailY, more_body |-> FALSE]}

PairSendMsgs ==
    {[type |-> "http.response.start", status |-> 404],
     [type |-> "http.response.start", status |-> 500],
     [type |-> "http.response.body", body |-> DetailX, more_body |-> TRUE],
     [type |-> "http.response.body", body |-> DetailX],
     [type |-> "http.response.body", body |-> DetailY]}

\* the non-empty request bodies the handler of exchange e has received
OwnRequestChunks(e) ==
    LET kept == SelectSeq(frames[e].got,
                          LAMBDA m : m.type = "http.request" /\ m.body # <<>>)
    IN  [i \in 1..Len(kept) |-> kept[i].body]

\* the non-empty response bodies the handler of exchange e has sent
OwnResponseChunks(e) ==
    LET kept == SelectSeq(frames[e].put,
                          LAMBDA m : m.type = "http.response.body" /\ m.body # <<>>)
    IN  [i \in 1..Len(kept) |-> kept[i].body]

\* the status of the last start message of exchange e, 0 without one
OwnStatus(e) ==
    LET starts == SelectSeq(frames[e].put, LAMBDA m : m.type = "http.response.start")
    IN  IF starts = <<>> THEN 0 ELSE starts[Len(starts)].status

\* lines 124-148: the call of middleware up to "await app(...)"
PairMiddleware(e) ==
    /\ frames[e].pc = "new"
    /\ \E sc \in PairScopes(e) :
        IF PassThrough(config, sc)
           THEN /\ frames' = [frames EXCEPT ![e].pc = "passthrough", ![e].scope = sc]
                /\ heap' = heap
           ELSE LET req == NewList(heap)
                    resp == NewList(req.heap)
                IN  /\ heap' = resp.heap
                    /\ frames' = [frames EXCEPT
                                    ![e].pc = "capture",
                                    ![e].scope = sc,
                                    ![e].path = Get(sc, "path", <<47>>),
                                    ![e].request_body_parts = req.ref,
                                    ![e].response_status = 0,
                                    ![e].response_body_parts = resp.ref]
    /\ UNCHANGED <<mvars, tvars, evars, cvars, ivars, kvars>>

\* lines 138-144: receive_wrapper of exchange e.  The request arrives in one
\* message.
PairReceive(e) ==
    /\ frames[e].pc = "capture"
    /\ frames[e].got = <<>>
    /\ \E message \in PairRecvMsgs(e) :
        /\ heap' = [heap EXCEPT ![frames[e].request_body_parts] =
                                    AccumulateRequest(@, message)]
        /\ frames' = [frames EXCEPT ![e].got = Append(@, ReceiveResult(message))]
    /\ UNCHANGED <<mvars, tvars, evars, cvars, ivars, kvars>>

\* the handler sends a start message first or not at all, then body
\* messages, the last one final
PairMaySend(e, message) ==
    IF message.type = "http.response.start" THEN frames[e].put = <<>>
    ELSE \/ ~TriggersCommit(message) /\ Len(OwnResponseChunks(e)) < MaxPairChunks - 1
         \/ TriggersCommit(message) /\ Len(OwnResponseChunks(e)) < MaxPairChunks

\* lines 150-176: send_wrapper of exchange e, with _set_span_attributes on the
\* final chunk; the handler of the exchange returns after its final chunk
PairSend(e) ==
    /\ frames[e].pc = "capture"
    /\ \E message \in PairSendMsgs :
        /\ PairMaySend(e, message)
        /\ LET f == frames[e]
               status == IF message.type = "http.response.start"
                            THEN Get(message, "status", 0) ELSE f.response_status
               h == IF message.type = "http.response.body"
                       THEN [heap EXCEPT ![f.response_body_parts] =
                                             AccumulateResponse(@, message)]
                       ELSE heap
               input == JsonDumps(JObj(InputData(f.scope, f.path, config,
                                                 h[f.request_body_parts])))
               output == JsonDumps(JObj(OutputData(config, status,
                                                   h[f.response_body_parts])))
           IN  /\ heap' = h
               /\ frames' = [frames EXCEPT
                               ![e].response_status = status,
                               ![e].put = Append(@, message),
                               ![e].attrs = IF TriggersCommit(message)
                                               THEN SetAttribute(
                                                        SetAttribute(@, "input.value", input),
                                                        "output.value", output)
                                               ELSE @,
                               ![e].pc = IF TriggersCommit(message) THEN "done" ELSE @]
    /\ UNCHANGED <<mvars, tvars, evars, cvars, ivars, kvars>>

PairInit ==
    /\ heap = <<>>
    /\ frames = [e \in Slots |-> NewFrame]
    /\ config \in {EnabledConfig(0), EnabledConfig(1)}
    /\ scope = [type |-> "http"]
    /\ MIdle
    /\ TIdle
    /\ EIdle
    /\ CIdle
    /\ IIdle
    /\ KIdle

PairNext == \E e \in Slots : PairMiddleware(e) \/ PairReceive(e) \/ PairSend(e)

SpecPair == PairInit /\ [][PairNext]_vars

Capturing(e) == frames[e].pc \in {"capture", "done"}
Committed(e) == frames[e].pc = "done"

(***************************************************************************)
(* C19  Exchange isolation: in every interleaving of two exchanges through *)
(* one handler, the accumulators of an exchange hold the chunks of that    *)
(* exchange and nothing else (none when it has received and sent nothing), *)
(* and the input.value and output.value it commits are those of its own    *)
(* method, path, status and chunks.                                        *)
(***************************************************************************)
ExchangeIsolation ==
    \A e \in Slots :
        /\ Capturing(e) =>
            /\ heap[frames[e].request_body_parts] = OwnRequestChunks(e)
            /\ heap[frames[e].response_body_parts] = OwnResponseChunks(e)
            /\ frames[e].response_status = OwnStatus(e)
        /\ Committed(e) =>
            /\ frames[e].attrs["input.value"] =
                   JsonDumps(JObj(InputData(frames[e].scope,
                                            Get(frames[e].scope, "path", <<47>>),
                                            config, OwnRequestChunks(e))))
            /\ frames[e].attrs["output.value"] =
                   JsonDumps(JObj(OutputData(config, OwnStatus(e), OwnResponseChunks(e))))

\* exchange 1 has committed POST /echo, status 404 and its X bodies while
\* exchange 2, GET /items, holds a Y request body and status 500
ExchangeIsolationWitness ==
    /\ Committed(1) /\ frames[1].scope = PostEcho /\ OwnStatus(1) = 404
    /\ OwnRequestChunks(1) = <<DetailX>> /\ OwnResponseChunks(1) = <<DetailX>>
    /\ frames[2].pc = "capture" /\ frames[2].scope = GetItems
    /\ OwnRequestChunks(2) = <<DetailY>> /\ OwnStatus(2) = 500
    /\ frames[2].request_body_parts < frames[1].request_body_parts

\* the bodies of the two directions of exchange e
OwnRequestBody(e) == Join(OwnRequestChunks(e))
OwnResponseBody(e) == Join(OwnResponseChunks(e))

\* two bodies of one length with the same first max_body_size_kb * 1024 bytes
SameUpToCap(a, b) ==
    /\ Len(a) = Len(b)
    /\ SliceTo(a, config.max_body_size_kb * KiB) = SliceTo(b, config.max_body_size_kb * KiB)

(***************************************************************************)
(* C17  Bounded snapshot: two committed exchanges with the same method,    *)
(* path and status, whose request bodies have one length and the same      *)
(* first max_body_size_kb * 1024 bytes, and whose response bodies have one *)
(* length and the same first max_body_size_kb * 1024 bytes, have the same  *)
(* input.value and the same output.value.                                  *)
(***************************************************************************)
BoundedSnapshot ==
    ( /\ Committed(1) /\ Committed(2)
      /\ frames[1].scope = frames[2].scope
      /\ OwnStatus(1) = OwnStatus(2)
      /\ SameUpToCap(OwnRequestBody(1), OwnRequestBody(2))
      /\ SameUpToCap(OwnResponseBody(1), OwnResponseBody(2)) )
    => /\ frames[1].attrs["input.value"] = frames[2].attrs["input.value"]
       /\ frames[1].attrs["output.value"] = frames[2].attrs["output.value"]

(***************************************************************************)
(* instrument_fastapi(app), lines 236-294.  deps.langfuse is what          *)
(* _configure_langfuse_otlp returns (both Langfuse keys set), deps.packages*)
(* whether the imports of lines 249-258 succeed.  The call either returns  *)
(* False, or leaves with the ValueError of OtelCaptureConfig(), or         *)
(* instruments the app and installs the capture middleware built with the  *)
(* config, and returns True.                                               *)
(***************************************************************************)
\* ",".join(parts)
RECURSIVE JoinComma(_)
JoinComma(parts) ==
    IF parts = <<>> THEN <<>>
    ELSE IF Len(parts) = 1 THEN parts[1]
    ELSE parts[1] \o <<44>> \o JoinComma(Tail(parts))

NotApplied == [called |-> TRUE, raised |-> "", returned |-> FALSE, installed |-> FALSE]

\* lines 263-294, c the outcome of OtelCaptureConfig()
InstallWith(c) ==
    IF c.raised # "" THEN [called |-> TRUE, raised |-> c.raised, installed |-> FALSE]
    ELSE [called |-> TRUE, raised |-> "", returned |-> TRUE, installed |-> TRUE,
          config |-> c.config, excluded_urls |-> JoinComma(c.config.excluded_paths)]

InstrumentFastapi(env, d) ==
    IF ~d.langfuse THEN NotApplied
    ELSE IF ~d.packages THEN NotApplied
    ELSE InstallWith(OtelCaptureConfig(env))

\* the call at startup; the middleware it installs holds the config and
\* waits for an exchange
InstrumentCall ==
    /\ instr = NoResult
    /\ instr' = InstrumentFastapi(environ, deps)
    /\ IF instr'.installed
          THEN config' = instr'.config /\ mode' = "new"
          ELSE UNCHANGED <<config, mode>>
    /\ UNCHANGED <<scope, span, sendPc, pending, request_body_parts,
                   response_status, response_body_parts, attrs, commit,
                   produced, received, emitted, sent, log,
                   tvars, evars, cvars, xvars, deps, otel, kvars>>

\* no middleware installed, none of its variables in use
NotInstalled ==
    /\ config = DisabledConfig
    /\ span = "unknown"
    /\ mode = "down"
    /\ sendPc = "idle"
    /\ pending = NoMsg
    /\ request_body_parts = <<>>
    /\ response_status = 0
    /\ response_body_parts = <<>>
    /\ attrs = NoAttrs
    /\ commit = "none"
    /\ produced = <<>>
    /\ received = <<>>
    /\ emitted = <<>>
    /\ sent = <<>>
    /\ log = <<>>

\* values of OTEL_CAPTURE_MAX_BODY_SIZE_KB with what int() makes of them:
\* unset, "50", " 7 ", "1_0", "-1", "full-width 12", "abc", "", "10.5", "1e3", "0x10", "1__0"
MaxBodySizeCases ==
    {[var |-> Unset, ok |-> TRUE, cap |-> 10],
     [var |-> SetTo(<<53, 48>>), ok |-> TRUE, cap |-> 50],
     [var |-> SetTo(<<32, 55, 32>>), ok |-> TRUE, cap |-> 7],
     [var |-> SetTo(<<49, 95, 48>>), ok |-> TRUE, cap |-> 10],
     [var |-> SetTo(<<45, 49>>), ok |-> TRUE, cap |-> -1],
     [var |-> SetTo(<<65297, 65298>>), ok |-> TRUE, cap |-> 12],
     [var |-> SetTo(<<97, 98, 99>>), ok |-> FALSE],
     [var |-> SetTo(<<>>), ok |-> FALSE],
     [var |-> SetTo(<<49, 48, 46, 53>>), ok |-> FALSE],
     [var |-> SetTo(<<49, 101, 51>>), ok |-> FALSE],
     [var |-> SetTo(<<48, 120, 49, 48>>), ok |-> FALSE],
     [var |-> SetTo(<<49, 95, 95, 48>>), ok |-> FALSE]}

\* "false"
EnabledFalse == SetTo(<<102, 97, 108, 115, 101>>)

StartupInit ==
    /\ environ \in [enabled : {Unset, EnabledFalse},
                    max_body_size_kb : {c.var : c \in MaxBodySizeCases},
                    excluded_paths : ExcludePathsTexts]
    /\ built = NoResult
    /\ deps \in [langfuse : BOOLEAN, packages : BOOLEAN]
    /\ instr = NoResult
    /\ otel = "unopened"
    /\ scope = PostEcho
    /\ NotInstalled
    /\ TIdle
    /\ EIdle
    /\ XIdle
    /\ KIdle

StartupNext == InstrumentCall

SpecStartup == StartupInit /\ [][StartupNext]_vars

InstrumentCalled == instr # NoResult

(***************************************************************************)
(* C21  Numeric config fails fast: when OTEL_CAPTURE_MAX_BODY_SIZE_KB is   *)
(* not an integer, instrument_fastapi installs no middleware, and when it  *)
(* gets as far as building the config (the Langfuse keys are set and the   *)
(* packages import) it leaves with the ValueError; a middleware that is    *)
(* installed holds the configured integer as its cap, 10 when the variable *)
(* is unset.                                                               *)
(***************************************************************************)
NumericConfigFailsFast ==
    \A c \in MaxBodySizeCases :
        (InstrumentCalled /\ environ.max_body_size_kb = c.var) =>
            /\ ~c.ok => /\ ~instr.installed
                        /\ (deps.langfuse /\ deps.packages) => instr.raised = "ValueError"
                        /\ mode = "down"
            /\ instr.installed => /\ c.ok
                                  /\ instr.config.max_body_size_kb = c.cap
                                  /\ config.max_body_size_kb = c.cap
                                  /\ mode = "new"

\* "10.5" with the Langfuse keys set and the packages present: ValueError
NumericConfigFailsFastWitness ==
    /\ InstrumentCalled /\ deps.langfuse /\ deps.packages
    /\ environ.max_body_size_kb = SetTo(<<49, 48, 46, 53>>)
    /\ instr.raised = "ValueError" /\ mode = "down"

(***************************************************************************)
(* CacheBackedContextStore, cache_backed.py.  A stored value is a dict,    *)
(* here a function from some of StoreFields to StoreValues; what a get of  *)
(* the DbRepository or of the cache returns is None or Some(dict).  Every  *)
(* call of the DbRepository and of the cache is one step; a call of the    *)
(* store is the steps of its method, in the order of the code.  No call of *)
(* the DbRepository or the cache raises.                                   *)
(***************************************************************************)
MaxStoreCalls == 2    \* calls made one after the other through one store

StoreKeys == {"k1", "k2"}
StoreFields == {"a", "b"}
StoreValues == {1, 2}

None == [some |-> FALSE]
Some(d) == [some |-> TRUE, val |-> d]

EmptyDict == [f \in {} |-> 0]
DictA1 == [f \in {"a"} |-> 1]
DictA2B1 == [f \in {"a", "b"} |-> IF f = "a" THEN 2 ELSE 1]
DictB2 == [f \in {"b"} |-> 2]

\* {**current, **patch}
Overlay(current, patch) == patch @@ current

\* "x or {}" of line 37
OrEmpty(x) == IF x.some /\ x.val # EmptyDict THEN x.val ELSE EmptyDict

\* the calls a client makes
StoreOps ==
    {[op |-> "get", key |-> k, arg |-> EmptyDict] : k \in StoreKeys}
        \cup {[op |-> "delete", key |-> k, arg |-> EmptyDict] : k \in StoreKeys}
        \cup {[op |-> "set", key |-> k, arg |-> d] : k \in StoreKeys, d \in {EmptyDict, DictA2B1}}
        \cup {[op |-> "update", key |-> k, arg |-> d] : k \in StoreKeys, d \in {DictA1, DictB2}}

\* the first step of each method
FirstStep(op) ==
    IF op = "get" THEN "get_cache"
    ELSE IF op = "set" THEN "set_db"
    ELSE IF op = "update" THEN "update_read"
    ELSE "delete_db"

IdleProc(budget) ==
    [pc |-> "idle", op |-> "none", key |-> "k1", arg |-> EmptyDict, local |-> None,
     result |-> None, trace |-> <<>>, pre_db |-> None, pre_cache |-> None,
     budget |-> budget]

\* the end of a call: what it returned and the step that ended it
Return(p, value, step) ==
    [procs EXCEPT ![p].pc = "done", ![p].result = value, ![p].trace = Append(@, step)]

\* a step that does not end the call
Goto(p, pc, local, step) ==
    [procs EXCEPT ![p].pc = pc, ![p].local = local, ![p].trace = Append(@, step)]

\* a client calls store.get, store.set, store.update or store.delete
StoreCall(p) ==
    /\ procs[p].pc \in {"idle", "done"}
    /\ procs[p].budget > 0
    /\ \E c \in StoreOps :
        procs' = [procs EXCEPT ![p] =
                    [pc |-> FirstStep(c.op), op |-> c.op, key |-> c.key, arg |-> c.arg,
                     local |-> None, result |-> None, trace |-> <<>>,
                     pre_db |-> db[c.key], pre_cache |-> cache[c.key],
                     budget |-> @.budget - 1]]
    /\ UNCHANGED <<db, cache>>

\* mutant: get returns what the DB holds when the DB holds the key
GetCacheAfterDb(p) ==
    /\ procs[p].pc = "get_cache"
    /\ IF db[procs[p].key].some
          THEN procs' = Return(p, db[procs[p].key], "db.get")
          ELSE procs' = Return(p, cache[procs[p].key], "cache.get")
    /\ UNCHANGED <<db, cache>>

\* lines 22-24
GetCache(p) ==
    /\ procs[p].pc = "get_cache"
    /\ IF cache[procs[p].key].some
          THEN procs' = Return(p, cache[procs[p].key], "cache.get")
          ELSE procs' = Goto(p, "get_db", None, "cache.get")
    /\ UNCHANGED <<db, cache>>

\* lines 26-27 and, for a key the DB does not hold, 29
GetDb(p) ==
    /\ procs[p].pc = "get_db"
    /\ IF db[procs[p].key].some
          THEN procs' = Goto(p, "get_fill", db[procs[p].key], "db.get")
          ELSE procs' = Return(p, None, "db.get")
    /\ UNCHANGED <<db, cache>>

\* lines 28-29
GetFill(p) ==
    /\ procs[p].pc = "get_fill"
    /\ cache' = [cache EXCEPT ![procs[p].key] = procs[p].local]
    /\ procs' = Return(p, procs[p].local, "cache.set")
    /\ UNCHANGED db

\* line 32
SetDb(p) ==
    /\ procs[p].pc = "set_db"
    /\ db' = [db EXCEPT ![procs[p].key] = Some(procs[p].arg)]
    /\ procs' = Goto(p, "set_cache", None, "db.set")
    /\ UNCHANGED cache

\* line 33
SetCache(p) ==
    /\ procs[p].pc = "set_cache"
    /\ cache' = [cache EXCEPT ![procs[p].key] = Some(procs[p].arg)]
    /\ procs' = Return(p, None, "cache.set")
    /\ UNCHANGED db

\* mutant: update starts from what the cache holds
UpdateReadFromCache(p) ==
    /\ procs[p].pc = "update_read"
    /\ procs' = Goto(p, "update_db",
                     Some(Overlay(OrEmpty(cache[procs[p].key]), procs[p].arg)), "cache.get")
    /\ UNCHANGED <<db, cache>>

\* lines 37-38
UpdateRead(p) ==
    /\ procs[p].pc = "update_read"
    /\ procs' = Goto(p, "update_db",
                     Some(Overlay(OrEmpty(db[procs[p].key]), procs[p].arg)), "db.get")
    /\ UNCHANGED <<db, cache>>

\* line 39
UpdateDb(p) ==
    /\ procs[p].pc = "update_db"
    /\ db' = [db EXCEPT ![procs[p].key] = procs[p].local]
    /\ procs' = Goto(p, "update_cache", procs[p].local, "db.set")
    /\ UNCHANGED cache

\* lines 40-41
UpdateCache(p) ==
    /\ procs[p].pc = "update_cache"
    /\ cache' = [cache EXCEPT ![procs[p].key] = procs[p].local]
    /\ procs' = Return(p, procs[p].local, "cache.set")
    /\ UNCHANGED db

\* line 44
DeleteDb(p) ==
    /\ procs[p].pc = "delete_db"
    /\ db' = [db EXCEPT ![procs[p].key] = None]
    /\ procs' = Goto(p, "delete_cache", None, "db.delete")
    /\ UNCHANGED cache

\* line 45
DeleteCache(p) ==
    /\ procs[p].pc = "delete_cache"
    /\ cache' = [cache EXCEPT ![procs[p].key] = None]
    /\ procs' = Return(p, None, "cache.delete")
    /\ UNCHANGED db

\* the store touches nothing of the middleware
StoreFrame == UNCHANGED <<mvars, tvars, evars, cvars, xvars, ivars>>

StoreNext ==
    \/ \E p \in DOMAIN procs : StoreCall(p) /\ StoreFrame
    \/ \E p \in DOMAIN procs : GetCache(p) /\ StoreFrame
    \/ \E p \in DOMAIN procs : GetDb(p) /\ StoreFrame
    \/ \E p \in DOMAIN procs : GetFill(p) /\ StoreFrame
    \/ \E p \in DOMAIN procs : SetDb(p) /\ StoreFrame
    \/ \E p \in DOMAIN procs : SetCache(p) /\ StoreFrame
    \/ \E p \in DOMAIN procs : UpdateRead(p) /\ StoreFrame
    \/ \E p \in DOMAIN procs : UpdateDb(p) /\ StoreFrame
    \/ \E p \in DOMAIN procs : UpdateCache(p) /\ StoreFrame
    \/ \E p \in DOMAIN procs : DeleteDb(p) /\ StoreFrame
    \/ \E p \in DOMAIN procs : DeleteCache(p) /\ StoreFrame

\* what the DB and the cache may hold for k1 when the store is built: the
\* two are separate services, the cache may lack an entry or hold an old one
InitEntries == {None, Some(EmptyDict), Some(DictA1), Some(DictA2B1)}

StoreInit ==
    /\ \E d \in InitEntries, c \in InitEntries, other \in {None, Some(DictB2)} :
        /\ db = [k \in StoreKeys |-> IF k = "k1" THEN d ELSE other]
        /\ cache = [k \in StoreKeys |-> IF k = "k1" THEN c ELSE other]
    /\ procs = <<IdleProc(MaxStoreCalls)>>
    /\ config = DisabledConfig
    /\ scope = [type |-> "http"]
    /\ MIdle
    /\ TIdle
    /\ EIdle
    /\ CIdle
    /\ XIdle
    /\ IIdle

\* one client, its calls one after the other
SpecStore == StoreInit /\ [][StoreNext]_vars

Finished(p, ops) == procs[p].pc = "done" /\ procs[p].op \in ops
Steps(p) == {procs[p].trace[i] : i \in DOMAIN procs[p].trace}

(***************************************************************************)
(* C22  CacheBackedContextStore.get: a key the cache holds is answered     *)
(* with the cached value and the DB is not consulted, whatever the DB      *)
(* holds; a key the cache lacks is answered with what the DB holds, and a  *)
(* value found there is written into the cache; a key neither holds is     *)
(* answered None and the cache stays without it.                           *)
(***************************************************************************)
GetContract ==
    \A p \in DOMAIN procs :
        Finished(p, {"get"}) =>
            LET q == procs[p] IN
            /\ q.pre_cache.some =>
                /\ q.result = q.pre_cache
                /\ Steps(p) = {"cache.get"}
                /\ cache[q.key] = q.pre_cache
                /\ db[q.key] = q.pre_db
            /\ ~q.pre_cache.some =>
                /\ q.result = q.pre_db
                /\ cache[q.key] = q.pre_db
                /\ db[q.key] = q.pre_db

\* a get answered from a cache entry that differs from the DB's, and a get
\* that filled the cache from the DB
GetContractWitness ==
    \E p \in DOMAIN procs :
        /\ Finished(p, {"get"})
        /\ procs[p].pre_cache.some
        /\ procs[p].pre_db.some
        /\ procs[p].pre_cache # procs[p].pre_db
        /\ procs[p].result = procs[p].pre_cache

GetFillWitness ==
    \E p \in DOMAIN procs :
        /\ Finished(p, {"get"})
        /\ ~procs[p].pre_cache.some
        /\ procs[p].pre_db.some
        /\ cache[procs[p].key] = procs[p].pre_db

\* the dict that holds the patch's fields and, besides them, those of base
IsOverlay(d, base, patch) ==
    /\ DOMAIN d = DOMAIN patch \cup (IF base.some THEN DOMAIN base.val ELSE {})
    /\ \A f \in DOMAIN d :
        d[f] = IF f \in DOMAIN patch THEN patch[f] ELSE base.val[f]

(***************************************************************************)
(* C23  Write-through, calls made one at a time: when a set, an update or  *)
(* a delete has returned, the cache and the DB hold the same for its key,  *)
(* nothing after a delete and the given dict after a set; the DB was       *)
(* written before the cache; an update returned and stored the dict the DB *)
(* held overlaid with the patch, whatever the cache held.                  *)
(***************************************************************************)
WriteThrough ==
    \A p \in DOMAIN procs :
        Finished(p, {"set", "update", "delete"}) =>
            LET q == procs[p] IN
            /\ cache[q.key] = db[q.key]
            /\ q.op = "set" =>
                /\ db[q.key] = Some(q.arg)
                /\ q.trace = <<"db.set", "cache.set">>
            /\ q.op = "delete" =>
                /\ db[q.key] = None
                /\ q.trace = <<"db.delete", "cache.delete">>
            /\ q.op = "update" =>
                /\ q.result.some
                /\ IsOverlay(q.result.val, q.pre_db, q.arg)
                /\ db[q.key] = q.result
                /\ q.trace = <<"db.get", "db.set", "cache.set">>

\* an update of a key whose cache entry was stale: overlaying the patch on
\* the cached dict would have given another result
WriteThroughWitness ==
    \E p \in DOMAIN procs :
        /\ Finished(p, {"update"})
        /\ procs[p].pre_cache.some
        /\ procs[p].pre_db.some
        /\ ~IsOverlay(procs[p].result.val, procs[p].pre_cache, procs[p].arg)
        /\ cache[procs[p].key] = procs[p].result

(***************************************************************************)
(* Two clients of one store, one call each.  The methods take no lock      *)
(* (cache_backed.py lines 21-45), so the steps of the two calls interleave *)
(* freely.  The cache starts without the key or with what the DB holds.    *)
(***************************************************************************)
RaceInit ==
    /\ \E d \in {None, Some(DictA1)}, warm \in BOOLEAN :
        /\ db = [k \in StoreKeys |-> IF k = "k1" THEN d ELSE None]
        /\ cache = [k \in StoreKeys |-> IF k = "k1" /\ warm THEN d ELSE None]
    /\ procs = <<IdleProc(1), IdleProc(1)>>
    /\ config = DisabledConfig
    /\ scope = [type |-> "http"]
    /\ MIdle
    /\ TIdle
    /\ EIdle
    /\ CIdle
    /\ XIdle
    /\ IIdle

SpecRace == RaceInit /\ [][StoreNext]_vars

\* both calls have returned and were on one key
BothFinished ==
    /\ \A p \in DOMAIN procs : procs[p].pc = "done"
    /\ procs[1].key = procs[2].key

\* the two calls were of these methods, in either order
Pair(op1, op2) ==
    \/ procs[1].op = op1 /\ procs[2].op = op2
    \/ procs[1].op = op2 /\ procs[2].op = op1

\* the call of the pair that was of method op
TheCall(op) == IF procs[1].op = op THEN procs[1] ELSE procs[2]

\* the pairs of calls the coherence statement is about
RacingPair ==
    \/ Pair("set", "set")
    \/ Pair("update", "set")
    \/ Pair("get", "delete") /\ ~TheCall("get").pre_cache.some

(***************************************************************************)
(* C30  Coherence under interleaving: when two sets, an update and a set,  *)
(* or a get that missed the cache and a delete, on one key, have both      *)
(* returned, the cache holds for the key what the DB holds (nothing where  *)
(* the DB holds nothing), and no write is lost: after an update and a set  *)
(* the DB holds the dict that was set, with or without the patch over it.  *)
(***************************************************************************)
RaceCoherence ==
    BothFinished /\ RacingPair =>
        LET k == procs[1].key IN
        /\ cache[k] = db[k]
        /\ Pair("update", "set") =>
            db[k] \in {Some(TheCall("set").arg),
                       Some(Overlay(TheCall("set").arg, TheCall("update").arg))}
        /\ Pair("get", "delete") => db[k] = None

\* the three cases apart
TwoSetsCoherent == BothFinished /\ Pair("set", "set") => cache[procs[1].key] = db[procs[1].key]
UpdateSetCoherent == BothFinished /\ Pair("update", "set") => cache[procs[1].key] = db[procs[1].key]
UpdateSetKeepsSet ==
    BothFinished /\ Pair("update", "set") =>
        db[procs[1].key] \in {Some(TheCall("set").arg),
                              Some(Overlay(TheCall("set").arg, TheCall("update").arg))}
GetDeleteCoherent ==
    BothFinished /\ Pair("get", "delete") /\ ~TheCall("get").pre_cache.some =>
        cache[procs[1].key] = db[procs[1].key]

\* the status of the last start message among msgs, 0 when there is none
LastStartStatus(msgs) ==
    LET starts == {i \in 1..Len(msgs) : msgs[i].type = "http.response.start"} IN
    IF starts = {} THEN 0
    ELSE msgs[CHOOSE i \in starts : \A j \in starts : j <= i].status

\* the handler has just handed a start message to send_wrapper
StartArrives ==
    /\ mode = "capture"
    /\ Len(emitted') = Len(emitted) + 1
    /\ emitted'[Len(emitted')].type = "http.response.start"

\* output.value is being written
OutputArrives == "output.value" \in DOMAIN attrs' /\ "output.value" \notin DOMAIN attrs

(***************************************************************************)
(* C24  Status recording: the step that takes a start message forwards it  *)
(* as it is, in that same step, starts no commit, writes no attribute and  *)
(* records its status; the step that writes output.value writes as         *)
(* "status" the status of the last start message the handler sent, 0 when  *)
(* it sent none.                                                           *)
(***************************************************************************)
StatusRecording ==
    [][/\ StartArrives =>
            /\ sent' = Append(sent, emitted'[Len(emitted')])
            /\ response_status' = emitted'[Len(emitted')].status
            /\ commit' = commit /\ sendPc' = sendPc /\ attrs' = attrs /\ log'[Len(log')].ev = "send"
       /\ OutputArrives =>
            LET out == JsonLoads(attrs'["output.value"]) IN
            /\ out.ok /\ out.val.t = "obj"
            /\ DictGet(out.val.v, K_status) = JInt(LastStartStatus(emitted))]_vars

\* output.value written after two start messages of different status, and
\* written after none
StatusRecordingWitness ==
    /\ "output.value" \in DOMAIN attrs
    /\ \E i, j \in 1..Len(emitted) :
        /\ i < j
        /\ emitted[i].type = "http.response.start" /\ emitted[j].type = "http.response.start"
        /\ emitted[i].status # emitted[j].status
        /\ Len(sent) >= j

StatusZeroWitness ==
    /\ "output.value" \in DOMAIN attrs
    /\ LastStartStatus(emitted) = 0
    /\ DictGet(AttrValue("output.value").val.v, K_status) = JInt(0)

\* the position in log of the write of the attribute, 0 when it was not written
WrittenAt(name) ==
    LET at == {i \in 1..Len(log) : log[i].ev = "set_attribute" /\ log[i].name = name} IN
    IF at = {} THEN 0 ELSE CHOOSE i \in at : TRUE

\* the commit failed after input.value was written
FailedBetweenWrites ==
    /\ commit = "failed"
    /\ "input.value" \in DOMAIN attrs

(***************************************************************************)
(* C27  Write order within a commit: input.value is written in a step of   *)
(* its own, before output.value; so at every moment output.value is on the *)
(* span only if input.value is, written earlier.  A commit that fails      *)
(* after the first write leaves input.value without output.value, and the  *)
(* final chunk is forwarded all the same.                                  *)
(***************************************************************************)
WriteOrder ==
    /\ [](/\ "output.value" \in DOMAIN attrs =>
                /\ "input.value" \in DOMAIN attrs
                /\ 0 < WrittenAt("input.value")
                /\ WrittenAt("input.value") < WrittenAt("output.value")
          /\ commit = "failed" => "output.value" \notin DOMAIN attrs)
    /\ (FailedBetweenWrites ~> (FailedBetweenWrites /\ Done))

\* the commit failed between the two writes and the final chunk went out
WriteOrderWitness ==
    /\ FailedBetweenWrites
    /\ "output.value" \notin DOMAIN attrs
    /\ Done

(***************************************************************************)
(* _set_span_attributes called after receive_wrapper and send_wrapper have *)
(* taken a request and a response that came in chunks: the state at the    *)
(* call of line 167, the accumulators built by lines 140-143 and 150-153   *)
(* from the messages, the last response message being the final chunk.     *)
(***************************************************************************)
MaxChunks == 3    \* messages a body is split over

\* b'{"detail":"X"}', the two bytes of U+00E9, no body
ChunkBodies == {DetailX, <<195, 169>>, <<>>}

\* where a body is cut: at either end and after its first byte
Cuts(b) == {0, 1, Len(b)} \cap 0..Len(b)

\* the ways of cutting b into k chunks, empty chunks among them
SplitsInto(b, k) ==
    LET ends == {c \in [1..k -> Cuts(b)] :
                    /\ c[k] = Len(b)
                    /\ \A i \in 1..(k - 1) : c[i] <= c[i + 1]}
    IN  {[i \in 1..k |-> SubSeq(b, (IF i = 1 THEN 0 ELSE c[i - 1]) + 1, c[i])] : c \in ends}

Splits(b) == UNION {SplitsInto(b, k) : k \in 1..MaxChunks}

\* the messages that carry the chunks, the last one final
ChunkMsgs(type, chunks) ==
    [i \in 1..Len(chunks) |->
        [type |-> type, body |-> chunks[i], more_body |-> i < Len(chunks)]]

RECURSIVE RequestPartsAfter(_, _)
RECURSIVE ResponsePartsAfter(_, _)

\* the accumulator after receive_wrapper has taken the first n messages
RequestPartsAfter(msgs, n) ==
    IF n = 0 THEN <<>> ELSE AccumulateRequest(RequestPartsAfter(msgs, n - 1), msgs[n])

\* the accumulator after send_wrapper has taken the first n messages
ResponsePartsAfter(msgs, n) ==
    IF n = 0 THEN <<>> ELSE AccumulateResponse(ResponsePartsAfter(msgs, n - 1), msgs[n])

ChunkInit ==
    /\ config \in {EnabledConfig(0), EnabledConfig(1)}
    /\ scope = PostEcho
    /\ \E rb \in ChunkBodies, sb \in ChunkBodies :
        \E rc \in Splits(rb), sc \in Splits(sb) :
            LET rm == ChunkMsgs("http.request", rc)
                sm == ChunkMsgs("http.response.body", sc)
            IN  /\ produced = rm /\ received = rm
                /\ request_body_parts = RequestPartsAfter(rm, Len(rm))
                /\ emitted = sm
                /\ sent = SubSeq(sm, 1, Len(sm) - 1)
                /\ pending = sm[Len(sm)]
                /\ response_body_parts = ResponsePartsAfter(sm, Len(sm))
    /\ response_status = 404
    /\ span = "unknown"
    /\ mode = "capture"
    /\ sendPc = "lookup"
    /\ attrs = NoAttrs
    /\ commit = "running"
    /\ log = <<[ev |-> "commit"]>>
    /\ TIdle
    /\ OIdle

ChunkNext == CommitLookup \/ CommitInput \/ CommitOutput \/ CommitRaise \/ SendFinal

SpecChunks == ChunkInit /\ [][ChunkNext]_vars

\* all the bytes the messages carried, in order
BytesOf(msgs) == Flatten([i \in 1..Len(msgs) |-> msgs[i].body], 1, Len(msgs))

\* the accumulator of a body that came in one message
Whole(b) == IF b = <<>> THEN <<>> ELSE <<b>>

\* the body_size member of a written record is n
BodySizeIs(name, n) ==
    LET rec == AttrValue(name) IN
    /\ rec.ok /\ rec.val.t = "obj"
    /\ HasKey(rec.val.v, K_body_size)
    /\ DictGet(rec.val.v, K_body_size) = JInt(n)

(***************************************************************************)
(* C29  Chunking invariance: however the request bytes and the response    *)
(* bytes were split over messages, empty chunks included, input.value and  *)
(* output.value are the values written for the same bytes arriving in one  *)
(* message each, and body_size is the number of bytes of all the chunks,   *)
(* whatever the cap.                                                       *)
(***************************************************************************)
ChunkingInvariance ==
    /\ "input.value" \in DOMAIN attrs =>
        /\ attrs["input.value"] =
              JsonDumps(JObj(InputData(scope, ScopePath, config, Whole(BytesOf(received)))))
        /\ BytesOf(received) # <<>> => BodySizeIs("input.value", Len(BytesOf(received)))
    /\ "output.value" \in DOMAIN attrs =>
        /\ attrs["output.value"] =
              JsonDumps(JObj(OutputData(config, response_status, Whole(BytesOf(emitted)))))
        /\ BytesOf(emitted) # <<>> => BodySizeIs("output.value", Len(BytesOf(emitted)))

\* committed with cap 0: the response in three chunks, U+00E9 cut in the
\* middle and an empty final chunk, the request in two
ChunkingInvarianceWitness ==
    /\ commit = "ok" /\ config.max_body_size_kb = 0
    /\ Len(emitted) = 3
    /\ emitted[1].body = <<195>> /\ emitted[2].body = <<169>> /\ emitted[3].body = <<>>
    /\ Len(received) = 2 /\ received[1].body # <<>> /\ received[2].body # <<>>
    /\ BodySizeIs("output.value", 2)

(***************************************************************************)
(* The config object while an exchange is captured.  OtelCaptureConfig is  *)
(* a plain class (lines 20-34) and the middleware holds the object itself  *)
(* (line 112), so whoever else holds it can assign its fields.  built is   *)
(* the object as the constructor made it, config its fields now.           *)
(***************************************************************************)
\* "/"
RootPath == <<47>>

\* the fields another holder of the object assigns: the cap, enabled, the
\* excluded paths
Reassigned(c) ==
    {[c EXCEPT !.max_body_size_kb = 0],
     [c EXCEPT !.enabled = FALSE],
     [c EXCEPT !.excluded_paths = <<RootPath>>]}

\* an assignment to a field of the config, made outside the middleware
\* after the exchange has passed the early-exit decision
Reassign ==
    /\ mode = "capture"
    /\ config = built.config
    /\ \E c \in Reassigned(config) : config' = c
    /\ UNCHANGED <<scope, span, mode, sendPc, pending, request_body_parts,
                   response_status, response_body_parts, attrs, commit,
                   produced, received, emitted, sent, log, tvars, ovars>>

HeldInit ==
    /\ built = [called |-> TRUE, raised |-> "", config |-> EnabledConfig(1)]
    /\ environ = [enabled |-> Unset, max_body_size_kb |-> SetTo(<<49>>), excluded_paths |-> Unset]
    /\ config = built.config
    /\ scope = PostEcho
    /\ MIdle
    /\ TIdle
    /\ EIdle
    /\ XIdle
    /\ IIdle
    /\ KIdle

HeldNext ==
    \/ Middleware
    \/ \E m \in RecvMsgs(scope) : OuterReceive(m)
    \/ ReceiveWrapper
    \/ \E m \in SendMsgs(scope) : SendWrapper(m)
    \/ CommitLookup
    \/ CommitInput
    \/ CommitOutput
    \/ CommitRaise
    \/ SendFinal
    \/ Reassign

SpecHeld == HeldInit /\ [][HeldNext]_vars

\* input.value is being written
InputArrives == "input.value" \in DOMAIN attrs' /\ "input.value" \notin DOMAIN attrs

\* all that the middleware holds and does, the config apart
exchange == <<scope, span, mode, sendPc, pending, request_body_parts,
              response_status, response_body_parts, attrs, commit,
              produced, received, emitted, sent, log>>

\* a step of the middleware
MiddlewareStep == exchange' # exchange

\* the config with the cap it has now and, for the rest, as constructed
WithCapNow == [built.config EXCEPT !.max_body_size_kb = config.max_body_size_kb]

(***************************************************************************)
(* C25 as stated: once the exchange has passed the early-exit decision no  *)
(* field of the config is read, so input.value and output.value are what   *)
(* the config as constructed gives, whatever the config holds when they    *)
(* are written; and no step of the middleware changes the config.          *)
(***************************************************************************)
ConfigReadOnlyAtDecision ==
    [][/\ InputArrives =>
            attrs'["input.value"] =
                JsonDumps(JObj(InputData(scope, ScopePath, built.config, request_body_parts)))
       /\ OutputArrives =>
            attrs'["output.value"] =
                JsonDumps(JObj(OutputData(built.config, response_status, response_body_parts)))
       /\ MiddlewareStep => config' = config]_vars

(***************************************************************************)
(* C25 amended: after the early-exit decision the middleware reads one     *)
(* field of the config, max_body_size_kb, when it builds each record of    *)
(* the commit.  input.value and output.value are what the constructed      *)
(* config gives with the cap the config holds when the record is written;  *)
(* enabled and excluded_paths are not read again: a captured exchange      *)
(* stays captured, and its commit is given up only for want of a recording *)
(* span.  No step of the middleware changes the config.                    *)
(***************************************************************************)
ConfigUse ==
    [][/\ InputArrives =>
            attrs'["input.value"] =
                JsonDumps(JObj(InputData(scope, ScopePath, WithCapNow, request_body_parts)))
       /\ OutputArrives =>
            attrs'["output.value"] =
                JsonDumps(JObj(OutputData(WithCapNow, response_status, response_body_parts)))
       /\ mode = "capture" => mode' = "capture"
       /\ (commit = "running" /\ commit' = "skipped") => ~SpanUsable(span')
       /\ MiddlewareStep => config' = config]_vars

\* committed after enabled was set to false and, in another run, after the
\* cap was set to 0: output.value written, truncated at the new cap
ConfigUseWitness ==
    /\ commit = "ok" /\ sendPc = "forward"
    /\ config = [built.config EXCEPT !.max_body_size_kb = 0]
    /\ HasKey(AttrValue("output.value").val.v, K_truncated)

ConfigOffWitness ==
    /\ commit = "ok" /\ sendPc = "forward"
    /\ ~config.enabled
    /\ "output.value" \in DOMAIN attrs
    /\ Len(log) >= 2 /\ log[Len(log) - 1].ev = "set_attribute"

(***************************************************************************)
(* One exchange through the application instrument_fastapi has set up.     *)
(* Line 276 puts the tracing instrumentation into the middleware stack and *)
(* lines 282-284 wrap that stack in the capture middleware, so a request   *)
(* enters the capture middleware first, whose "await app(...)" (lines 126, *)
(* 132, 178) enters the instrumented stack; the handler's send reaches     *)
(* send_wrapper through the instrumentation's own send.  What the source   *)
(* says of the instrumentation (lines 117-121, 162-163): the span is       *)
(* active while send_wrapper handles the final chunk, and has been ended   *)
(* by the time "await app(...)" returns.  otel is the span of the          *)
(* exchange: "unopened", "open", "closed", and "exited" once the           *)
(* instrumented stack has returned.                                        *)
(***************************************************************************)
\* values of OTEL_CAPTURE_EXCLUDE_PATHS, with whether one of the items is
\* empty once trimmed and whether "/echo" is passed through: unset, "",
\* "/health,", " , /x", "/ec", "/echo/1"
ExcludeCases ==
    {[var |-> Unset, empty |-> FALSE, passes |-> FALSE],
     [var |-> SetTo(<<>>), empty |-> TRUE, passes |-> TRUE],
     [var |-> SetTo(<<47, 104, 101, 97, 108, 116, 104, 44>>), empty |-> TRUE, passes |-> TRUE],
     [var |-> SetTo(<<32, 44, 32, 47, 120>>), empty |-> TRUE, passes |-> TRUE],
     [var |-> SetTo(<<47, 101, 99>>), empty |-> FALSE, passes |-> TRUE],
     [var |-> SetTo(<<47, 101, 99, 104, 111, 47, 49>>), empty |-> FALSE, passes |-> FALSE]}

ServeInit ==
    /\ environ \in [enabled : {Unset}, max_body_size_kb : {Unset},
                    excluded_paths : {c.var : c \in ExcludeCases}]
    /\ built = NoResult
    /\ deps = [langfuse |-> TRUE, packages |-> TRUE]
    /\ instr = NoResult
    /\ otel = "unopened"
    /\ scope = PostEcho
    /\ NotInstalled
    /\ TIdle
    /\ EIdle
    /\ XIdle
    /\ KIdle

\* "await app(...)" of lines 126, 132 and 178 enters the instrumented stack,
\* which opens the span of the exchange
OtelOpen ==
    /\ mode \in {"passthrough", "capture"}
    /\ otel = "unopened"
    /\ otel' = "open"
    /\ UNCHANGED <<mvars, tvars, evars, cvars, xvars, deps, instr, kvars>>

\* the handler runs inside the instrumented stack
Serving == otel \in {"open", "closed"}

\* the instrumentation's call of send with the final chunk has returned:
\* in a captured exchange that send is send_wrapper
FinalSendReturned == FinalIn(sent) /\ sendPc = "idle"

\* the instrumentation ends the span
OtelClose ==
    /\ otel = "open"
    /\ FinalSendReturned
    /\ otel' = "closed"
    /\ UNCHANGED <<mvars, tvars, evars, cvars, xvars, deps, instr, kvars>>

\* mutant: the attributes are set when "await app(...)" has returned
AppReturnsThenCommits ==
    /\ Serving
    /\ sendPc = "idle"
    /\ Len(produced) = Len(received)
    /\ otel' = "exited"
    /\ IF mode = "capture"
          THEN /\ sendPc' = "lookup"
               /\ commit' = "running"
               /\ log' = Append(log, [ev |-> "commit"])
          ELSE UNCHANGED <<sendPc, commit, log>>
    /\ UNCHANGED <<config, scope, span, mode, pending, request_body_parts,
                   response_status, response_body_parts, attrs,
                   produced, received, emitted, sent,
                   tvars, evars, cvars, xvars, deps, instr, kvars>>

\* lines 126-127, 132-133 and 178: "await app(...)" returns, the span ended
\* if it was not, and the middleware returns
AppReturns ==
    /\ Serving
    /\ sendPc = "idle"
    /\ Len(produced) = Len(received)
    /\ otel' = "exited"
    /\ UNCHANGED <<mvars, tvars, evars, cvars, xvars, deps, instr, kvars>>

ServeNext ==
    \/ InstrumentCall
    \/ Middleware
    \/ OtelOpen
    \/ \E m \in RecvMsgs(scope) : Serving /\ PassReceive(m)
    \/ \E m \in SendMsgs(scope) : Serving /\ PassSend(m)
    \/ \E m \in RecvMsgs(scope) : Serving /\ OuterReceive(m)
    \/ Serving /\ ReceiveWrapper
    \/ \E m \in SendMsgs(scope) : Serving /\ SendWrapper(m)
    \/ CommitLookup
    \/ CommitInput
    \/ CommitOutput
    \/ CommitRaise
    \/ SendFinal
    \/ OtelClose
    \/ AppReturns

SpecServe == ServeInit /\ [][ServeNext]_vars

(***************************************************************************)
(* C26  Composition inside the span: in an exchange through the            *)
(* application instrument_fastapi has set up, every step that writes an    *)
(* attribute is taken with the span of the exchange open, after the        *)
(* instrumentation opened it and before it ends it; no write comes after   *)
(* the span was ended or after the instrumented stack returned.            *)
(***************************************************************************)
InsideSpan ==
    [][(attrs' # attrs \/ Writes' # Writes) => (otel = "open" /\ otel' = "open")]_vars

\* both attributes written, the final chunk forwarded and the span ended
\* afterwards
InsideSpanWitness ==
    /\ otel \in {"closed", "exited"}
    /\ instr.installed
    /\ commit = "ok"
    /\ DOMAIN attrs = {"input.value", "output.value"}
    /\ Done

(***************************************************************************)
(* C28  Empty exclusion entry: the items of OTEL_CAPTURE_EXCLUDE_PATHS are *)
(* trimmed and all kept, and a path is excluded when an item is a prefix   *)
(* of it as a string.  So with the variable empty, or with an item that is *)
(* empty once trimmed, the exchange for "/echo" is passed through: the     *)
(* handler's messages go out as they are and no attribute is written; with *)
(* "/ec" it is passed through too, with "/echo/1" or the default it is     *)
(* captured.                                                               *)
(***************************************************************************)
EmptyExclusionEntry ==
    \A c \in ExcludeCases :
        (environ.excluded_paths = c.var /\ mode \in {"passthrough", "capture"}) =>
            /\ c.empty => c.passes
            /\ c.empty => \E i \in 1..Len(config.excluded_paths) : config.excluded_paths[i] = <<>>
            /\ (mode = "passthrough") = c.passes
            /\ c.passes =>
                /\ attrs = NoAttrs /\ commit = "none" /\ Writes = {}
                /\ sent = emitted
                /\ received = produced

\* "/health," was configured; the exchange went through untouched, final
\* chunk and all
EmptyExclusionEntryWitness ==
    /\ environ.excluded_paths = SetTo(<<47, 104, 101, 97, 108, 116, 104, 44>>)
    /\ mode = "passthrough"
    /\ FinalIn(sent)
    /\ Len(received) > 0
    /\ attrs = NoAttrs

====
